---- MODULE Spec2Model ----
(***************************************************************************)
(* Sensor evaluation engine of dagster (sensor_definition.py): one tick of *)
(* a sensor, from the construction of the evaluation context to the        *)
(* SensorExecutionData handed back to the caller, for plain sensors,       *)
(* single-asset sensors, multi-asset sensors and partitioned-asset         *)
(* sensors.                                                                *)
(***************************************************************************)
EXTENDS Integers, Sequences, FiniteSets, TLC

(***************************************************************************)
(* Bounds of the model.                                                    *)
(***************************************************************************)
\* longest sequence of items a routine produces in one tick
MaxItems == 2
\* number of materialization events the event log can hold
MaxEvents == 1

(***************************************************************************)
(* Python values.  Optional[str] values are strings, with PyNone standing  *)
(* for None; Truthy is Python's truth value of an Optional[str].           *)
(***************************************************************************)
PyNone == "None"

Truthy(s) == s # PyNone /\ s # ""

(***************************************************************************)
(* The values a routine can produce (run_request.py): SkipReason,          *)
(* RunRequest, PipelineRunReaction, None, and OtherItem for a value of any *)
(* other type.                                                             *)
(***************************************************************************)
SkipReason(m) == [kind |-> "SkipReason", skip_message |-> m]

RunRequest(j) == [kind |-> "RunRequest", job_name |-> j]

PipelineRunReaction == [kind |-> "PipelineRunReaction"]

NoneItem == [kind |-> "None"]

OtherItem == [kind |-> "Other"]

SkipMessages == {"no new data"}

\* SensorDefinition._targets as the list of the targets' pipeline_name
TargetLists == {<<>>, <<"job_a">>, <<"job_a", "job_b">>}

SensorKinds == {"sensor", "asset_sensor", "multi_asset_sensor", "partitioned_asset_sensor"}

AssetAwareKinds == {"multi_asset_sensor", "partitioned_asset_sensor"}

(***************************************************************************)
(* Inputs explored.  Targeting is the same code for every kind of sensor,  *)
(* so plain and single-asset sensors are explored with every target list   *)
(* and every job name, the asset-aware kinds, whose cursors are the larger *)
(* part of their state, with one target and the two job names that give an *)
(* acceptable and a rejected run request.                                  *)
(***************************************************************************)
TargetListsOf(kind) ==
    IF kind \in AssetAwareKinds THEN {<<"job_a">>} ELSE TargetLists

JobNamesOf(kind) ==
    IF kind \in AssetAwareKinds THEN {PyNone, "job_c"} ELSE {PyNone, "", "job_a", "job_c"}

ItemsOf(kind) ==
    {SkipReason(m) : m \in SkipMessages} \cup {RunRequest(j) : j \in JobNamesOf(kind)}
        \cup {PipelineRunReaction, NoneItem, OtherItem}

\* the sequences over items of length 0..n
RECURSIVE ItemSeqs(_, _)
ItemSeqs(items, n) ==
    IF n = 0 THEN {<<>>}
    ELSE LET shorter == ItemSeqs(items, n - 1)
         IN  shorter \cup {Append(s, i) : s \in {t \in shorter : Len(t) = n - 1}, i \in items}

\* the three shapes in which a routine hands back its output
Shapes == {"value", "list", "generator"}

IsRunRequest(item) == item.kind = "RunRequest"

IsSkipReason(item) == item.kind = "SkipReason"

IsPipelineRunReaction(item) == item.kind = "PipelineRunReaction"

\* isinstance(item, (SkipReason, RunRequest, PipelineRunReaction))
IsSensorItem(item) == item.kind \in {"SkipReason", "RunRequest", "PipelineRunReaction"}

(***************************************************************************)
(* Outcome of a call: either a value or the exception that left it.        *)
(***************************************************************************)
NoData == [none |-> TRUE]

Raised(e) == [status |-> "failed", error |-> e, data |-> NoData]

Returned(d) == [status |-> "ok", error |-> "", data |-> d]

NoOutcome == [status |-> "none", error |-> "", data |-> NoData]

(***************************************************************************)
(* SensorDefinition.check_valid_run_requests: "ok", or the error raised    *)
(* for the first offending run request.                                    *)
(***************************************************************************)
\* as check_valid_run_requests, without the check for a sensor lacking a target
check_valid_run_requests_noTargetCheck(targets, run_requests) ==
    LET has_multiple_targets == Len(targets) > 1
        target_names == {targets[i] : i \in DOMAIN targets}
        MissingName(rr) == rr.job_name = PyNone /\ has_multiple_targets
        UnknownName(rr) == Truthy(rr.job_name) /\ rr.job_name \notin target_names
        offending == {i \in DOMAIN run_requests :
                         MissingName(run_requests[i]) \/ UnknownName(run_requests[i])}
        first == CHOOSE i \in offending : \A j \in offending : i <= j
    IN  IF offending = {} THEN "ok"
        ELSE IF MissingName(run_requests[first]) THEN "targeting: job_name missing"
        ELSE "targeting: job_name unknown"

\* as check_valid_run_requests, without the check of the job name against the targets
check_valid_run_requests_anyName(targets, run_requests) ==
    LET has_multiple_targets == Len(targets) > 1
        MissingName(rr) == rr.job_name = PyNone /\ has_multiple_targets
        offending == {i \in DOMAIN run_requests : MissingName(run_requests[i])}
    IN  IF run_requests # <<>> /\ targets = <<>> THEN "targeting: no target"
        ELSE IF offending = {} THEN "ok"
        ELSE "targeting: job_name missing"

check_valid_run_requests(targets, run_requests) ==
    LET has_multiple_targets == Len(targets) > 1
        target_names == {targets[i] : i \in DOMAIN targets}
        MissingName(rr) == rr.job_name = PyNone /\ has_multiple_targets
        UnknownName(rr) == Truthy(rr.job_name) /\ rr.job_name \notin target_names
        offending == {i \in DOMAIN run_requests :
                         MissingName(run_requests[i]) \/ UnknownName(run_requests[i])}
        first == CHOOSE i \in offending : \A j \in offending : i <= j
    IN  IF run_requests # <<>> /\ targets = <<>> THEN "targeting: no target"
        ELSE IF offending = {} THEN "ok"
        ELSE IF MissingName(run_requests[first]) THEN "targeting: job_name missing"
        ELSE "targeting: job_name unknown"

(***************************************************************************)
(* SensorExecutionData.__new__: the named tuple, or the failure of its     *)
(* check.invariant.                                                        *)
(***************************************************************************)
\* as SensorExecutionData, but a missing skip message is replaced by the
\* empty-result message after the invariant has been checked
SensorExecutionData_defaultsSkipMessage(run_requests, skip_message, cursor, pipeline_run_reactions) ==
    IF run_requests # <<>> /\ Truthy(skip_message)
    THEN Raised("invariant: both skip data and run request data")
    ELSE Returned([run_requests |-> run_requests,
                   skip_message |-> IF skip_message = PyNone
                                    THEN "Sensor function returned an empty result"
                                    ELSE skip_message,
                   cursor |-> cursor,
                   pipeline_run_reactions |-> pipeline_run_reactions])

SensorExecutionData(run_requests, skip_message, cursor, pipeline_run_reactions) ==
    IF run_requests # <<>> /\ Truthy(skip_message)
    THEN Raised("invariant: both skip data and run request data")
    ELSE Returned([run_requests |-> run_requests,
                   skip_message |-> skip_message,
                   cursor |-> cursor,
                   pipeline_run_reactions |-> pipeline_run_reactions])

EmptyResultMessage == "Sensor function returned an empty result"

(***************************************************************************)
(* SensorDefinition.evaluate_tick.  evaluation is what                      *)
(* list(self._evaluation_fn(context)) gave: the items, or the exception    *)
(* that ended it.  context.cursor is cursor_at_call when evaluate_tick is  *)
(* called and cursor_after_result once the evaluation function has been    *)
(* consumed; the SensorExecutionData is built from the latter.             *)
(***************************************************************************)
Classified(rrs, reactions, msg) ==
    [error |-> "ok", run_requests |-> rrs, pipeline_run_reactions |-> reactions,
     skip_message |-> msg]

Rejected(e) ==
    [error |-> e, run_requests |-> <<>>, pipeline_run_reactions |-> <<>>,
     skip_message |-> PyNone]

\* as ClassifyResult, but several skip signals on their own are accepted and
\* the message of the first is kept
ClassifyResult_acceptsSkips(result) ==
    IF result = <<>> \/ result = <<NoneItem>>
    THEN Classified(<<>>, <<>>, EmptyResultMessage)
    ELSE IF \E i \in DOMAIN result : ~IsSensorItem(result[i])
    THEN Rejected("classification: unexpected item type")
    ELSE LET has_skip == \E i \in DOMAIN result : IsSkipReason(result[i])
             run_requests == SelectSeq(result, IsRunRequest)
             pipeline_run_reactions == SelectSeq(result, IsPipelineRunReaction)
         IN  IF has_skip /\ run_requests # <<>>
             THEN Rejected("classification: both RunRequest and SkipReason")
             ELSE IF has_skip /\ pipeline_run_reactions # <<>>
             THEN Rejected("classification: both PipelineRunReaction and SkipReason")
             ELSE Classified(run_requests, pipeline_run_reactions,
                             IF has_skip THEN SelectSeq(result, IsSkipReason)[1].skip_message
                             ELSE PyNone)

\* the if / elif / else of evaluate_tick over result
ClassifyResult(result) ==
    IF result = <<>> \/ result = <<NoneItem>>
    THEN Classified(<<>>, <<>>, EmptyResultMessage)
    ELSE IF Len(result) = 1
    THEN LET item == result[1]
         IN  IF ~IsSensorItem(item)
             THEN Rejected("classification: unexpected item type")
             ELSE Classified(IF IsRunRequest(item) THEN <<item>> ELSE <<>>,
                             IF IsPipelineRunReaction(item) THEN <<item>> ELSE <<>>,
                             IF IsSkipReason(item) THEN item.skip_message ELSE PyNone)
    ELSE LET has_skip == \E i \in DOMAIN result : IsSkipReason(result[i])
             run_requests == SelectSeq(result, IsRunRequest)
             pipeline_run_reactions == SelectSeq(result, IsPipelineRunReaction)
         IN  IF \E i \in DOMAIN result : ~IsSensorItem(result[i])
             THEN Rejected("classification: unexpected item type")
             ELSE IF has_skip
             THEN IF run_requests # <<>>
                  THEN Rejected("classification: both RunRequest and SkipReason")
                  ELSE IF pipeline_run_reactions # <<>>
                       THEN Rejected("classification: both PipelineRunReaction and SkipReason")
                       ELSE Rejected("classification: multiple SkipReasons")
             ELSE Classified(run_requests, pipeline_run_reactions, PyNone)

\* as evaluate_tick, but context.cursor is read before the evaluation function
\* is consumed
evaluate_tick_readsCursorAtCall(evaluation, targets, cursor_at_call, cursor_after_result) ==
    LET c == ClassifyResult(evaluation.items)
        valid == check_valid_run_requests(targets, c.run_requests)
    IN  IF evaluation.error # "ok" THEN Raised(evaluation.error)
        ELSE IF c.error # "ok" THEN Raised(c.error)
        ELSE IF valid # "ok" THEN Raised(valid)
        ELSE SensorExecutionData(c.run_requests, c.skip_message, cursor_at_call,
                                 c.pipeline_run_reactions)

evaluate_tick(evaluation, targets, cursor_at_call, cursor_after_result) ==
    LET c == ClassifyResult(evaluation.items)
        valid == check_valid_run_requests(targets, c.run_requests)
    IN  IF evaluation.error # "ok" THEN Raised(evaluation.error)
        ELSE IF c.error # "ok" THEN Raised(c.error)
        ELSE IF valid # "ok" THEN Raised(valid)
        ELSE SensorExecutionData(c.run_requests, c.skip_message, cursor_after_result,
                                 c.pipeline_run_reactions)

(***************************************************************************)
(* wrap_sensor_evaluation._wrapped_fn: the items the evaluation function   *)
(* yields for a routine that returned `returned` in shape `shape`, and the *)
(* exception, if any, that ends it.  A routine that returns one value      *)
(* returns the one-element sequence of it (None included).                 *)
(***************************************************************************)
Yielded(items) == [items |-> items, error |-> "ok"]

YieldedThenRaised(items, e) == [items |-> items, error |-> e]

wrap_sensor_evaluation(shape, returned) ==
    IF shape \in {"generator", "list"} THEN Yielded(returned)
    ELSE IF IsSkipReason(returned[1]) \/ IsRunRequest(returned[1]) THEN Yielded(returned)
    ELSE IF returned[1] # NoneItem
         THEN YieldedThenRaised(<<>>, "classification: unexpected output")
         ELSE Yielded(<<>>)

(***************************************************************************)
(* The asset wrappers.  _wrap_asset_fn of the module (used by              *)
(* PartitionedAssetSensorDefinition) and the one nested in                 *)
(* MultiAssetSensorDefinition.__init__ are generator functions: they yield *)
(* the routine's items and then raise if something was yielded while       *)
(* cursor_has_been_updated is still false.                                 *)
(***************************************************************************)
CursorNotAdvanced == "cursor_not_advanced"

\* as _wrap_asset_fn, but a run request returned on its own does not set
\* runs_yielded
_wrap_asset_fn_singleRunNotCounted(shape, returned, cursor_has_been_updated) ==
    LET yielded == IF shape \in {"generator", "list"} THEN returned
                   ELSE IF IsRunRequest(returned[1]) \/ IsSkipReason(returned[1])
                        THEN returned
                        ELSE <<>>
        runs_yielded == shape \in {"generator", "list"} /\ Len(returned) > 0
    IN  IF shape = "value" /\ returned[1] = NoneItem THEN Yielded(<<>>)
        ELSE IF runs_yielded /\ ~cursor_has_been_updated
             THEN YieldedThenRaised(yielded, CursorNotAdvanced)
             ELSE Yielded(yielded)

_wrap_asset_fn(shape, returned, cursor_has_been_updated) ==
    LET yielded == IF shape \in {"generator", "list"} THEN returned
                   ELSE IF IsRunRequest(returned[1]) \/ IsSkipReason(returned[1])
                        THEN returned
                        ELSE <<>>
        runs_yielded == IF shape \in {"generator", "list"} THEN Len(returned) > 0
                        ELSE IsRunRequest(returned[1])
    IN  IF shape = "value" /\ returned[1] = NoneItem THEN Yielded(<<>>)
        ELSE IF runs_yielded /\ ~cursor_has_been_updated
             THEN YieldedThenRaised(yielded, CursorNotAdvanced)
             ELSE Yielded(yielded)

MultiAsset_wrap_asset_fn(shape, returned, cursor_has_been_updated) ==
    LET yielded == IF shape \in {"generator", "list"} THEN returned
                   ELSE IF IsRunRequest(returned[1]) \/ IsSkipReason(returned[1])
                        THEN returned
                        ELSE <<>>
        runs_yielded == IF shape \in {"generator", "list"} THEN Len(returned) > 0
                        ELSE IsRunRequest(returned[1])
    IN  IF shape = "value" /\ returned[1] = NoneItem THEN Yielded(<<>>)
        ELSE IF runs_yielded /\ ~cursor_has_been_updated
             THEN YieldedThenRaised(yielded, CursorNotAdvanced)
             ELSE Yielded(yielded)

(***************************************************************************)
(* _wrap_asset_fn nested in AssetSensorDefinition.__init__, from the call  *)
(* of the routine on: the items it yields.  It ends with                   *)
(* context.update_cursor(str(event_record.storage_id)).                    *)
(***************************************************************************)
Asset_wrap_asset_fn(shape, returned) ==
    IF shape \in {"generator", "list"} THEN Yielded(returned)
    ELSE IF IsSkipReason(returned[1]) \/ IsRunRequest(returned[1]) THEN Yielded(returned)
    ELSE Yielded(<<>>)

(***************************************************************************)
(* self._evaluation_fn of each kind of sensor: wrap_sensor_evaluation      *)
(* around the kind's own wrapper, which being a generator function is      *)
(* passed through item by item, exception included.                        *)
(***************************************************************************)
evaluation_fn(kind, shape, returned, cursor_has_been_updated) ==
    LET inner == CASE kind = "asset_sensor" -> Asset_wrap_asset_fn(shape, returned)
                   [] kind = "multi_asset_sensor" ->
                        MultiAsset_wrap_asset_fn(shape, returned, cursor_has_been_updated)
                   [] kind = "partitioned_asset_sensor" ->
                        _wrap_asset_fn(shape, returned, cursor_has_been_updated)
        outer == wrap_sensor_evaluation("generator", inner.items)
    IN  IF kind = "sensor" THEN wrap_sensor_evaluation(shape, returned)
        ELSE YieldedThenRaised(outer.items, inner.error)

(***************************************************************************)
(* The event log of the instance.  An event record is a materialization of *)
(* an asset key with a partition label; its storage_id is its position in  *)
(* the log.                                                                *)
(***************************************************************************)
\* MultiAssetSensorDefinition._asset_keys, in the order given
AssetKeys == <<"a1">>

\* AssetSensorDefinition._asset_key
AssetKey == "a1"

\* partitions_def.get_partition_keys() of every monitored asset
PartitionKeys == <<"p1", "p2">>

Range(seq) == {seq[i] : i \in DOMAIN seq}

NoRecord == [none |-> TRUE]

EventLogRecord(log, id) ==
    [storage_id |-> id, asset_key |-> log[id].asset_key, partition |-> log[id].partition]

\* instance.get_event_records(EventRecordsFilter(ASSET_MATERIALIZATION, asset_key,
\* after_cursor, asset_partitions), ascending, limit): the storage ids, in order.
\* after_cursor 0 stands for None, asset_partitions is a set.
RECURSIVE Ordered(_, _)
Ordered(ids, ascending) ==
    IF ids = {} THEN <<>>
    ELSE LET head == CHOOSE i \in ids :
                        \A j \in ids : IF ascending THEN i <= j ELSE i >= j
         IN  <<head>> \o Ordered(ids \ {head}, ascending)

get_event_records(log, asset_key, after_cursor, asset_partitions, ascending, limit) ==
    LET ids == {i \in DOMAIN log : /\ log[i].asset_key = asset_key
                                   /\ i > after_cursor
                                   /\ log[i].partition \in asset_partitions}
        all == Ordered(ids, ascending)
    IN  SubSeq(all, 1, IF Len(all) < limit THEN Len(all) ELSE limit)

(***************************************************************************)
(* Cursors are Optional[str].  str(n) and int(s) over the storage ids, and *)
(* json.dumps / json.loads over the cursor dictionaries of the asset-aware *)
(* contexts: a dictionary maps some asset keys to a value, <<>> for null,  *)
(* <<id>> for a storage id, <<partition, id>> for a (partition, id) pair.  *)
(***************************************************************************)
StorageIds == 1..MaxEvents

str(n) == ToString(n)

ValueError == 0 - 1

int(s) == IF \E n \in StorageIds : str(n) = s
          THEN CHOOSE n \in StorageIds : str(n) = s
          ELSE ValueError

JsonValue(v) ==
    IF v = <<>> THEN "null"
    ELSE IF Len(v) = 1 THEN str(v[1])
    ELSE "[\"" \o v[1] \o "\", " \o str(v[2]) \o "]"

RECURSIVE JsonEntries(_, _)
JsonEntries(d, keys) ==
    IF keys = <<>> THEN ""
    ELSE LET k == Head(keys)
             rest == JsonEntries(d, Tail(keys))
         IN  IF k \notin DOMAIN d THEN rest
             ELSE "\"" \o k \o "\": " \o JsonValue(d[k])
                      \o (IF rest = "" THEN "" ELSE ", " \o rest)

json_dumps(d) == "{" \o JsonEntries(d, AssetKeys) \o "}"

EmptyDict == [k \in {} |-> <<>>]

DictsOver(values) ==
    UNION {[keys -> values] : keys \in SUBSET Range(AssetKeys)}

MultiAssetValues == {<<>>} \cup {<<n>> : n \in StorageIds}

PartitionedValues == {<<>>} \cup {<<p, n>> : p \in Range(PartitionKeys), n \in StorageIds}

\* json.loads(s) when s is the text of a cursor dictionary over values
IsJson(s, values) == \E d \in DictsOver(values) : json_dumps(d) = s

json_loads(s, values) == CHOOSE d \in DictsOver(values) : json_dumps(d) = s

\* cursor_dict.get(key)
Get(d, k) == IF k \in DOMAIN d THEN d[k] ELSE <<>>

(***************************************************************************)
(* Operations of the evaluation contexts.  An operation that can raise     *)
(* gives [error, ...]; error "ok" means it returned.                       *)
(***************************************************************************)
\* as SensorEvaluationContext, but the cursor argument is not stored
SensorEvaluationContext_dropsCursor(cursor) ==
    [cursor |-> PyNone, cursor_has_been_updated |-> FALSE]

\* SensorEvaluationContext.__init__ and the __init__ of its subclasses
SensorEvaluationContext(cursor) ==
    [cursor |-> cursor, cursor_has_been_updated |-> FALSE]

\* SensorEvaluationContext.update_cursor
update_cursor(cursor) == cursor

\* cursor_dict = json.loads(self.cursor) if self.cursor else {}
CursorDictError(cursor, values) == Truthy(cursor) /\ ~IsJson(cursor, values)

CursorDict(cursor, values) ==
    IF Truthy(cursor) THEN json_loads(cursor, values) ELSE EmptyDict

AfterCursor(v) == IF v = <<>> THEN 0 ELSE v[Len(v)]

RecordOrNone(log, ids) == IF ids = <<>> THEN NoRecord ELSE EventLogRecord(log, ids[1])

\* as MultiAsset_latest_materialization_records_by_key, but the cursor is not
\* passed to the event log
MultiAsset_latest_materialization_records_by_key_fromStart(log, cursor) ==
    IF CursorDictError(cursor, MultiAssetValues)
    THEN [error |-> "routine: cursor is not a cursor dictionary", records |-> EmptyDict]
    ELSE [error |-> "ok",
          records |-> [a \in Range(AssetKeys) |->
              RecordOrNone(log, get_event_records(log, a, 0, Range(PartitionKeys), FALSE, 1))]]

\* MultiAssetSensorEvaluationContext.latest_materialization_records_by_key()
MultiAsset_latest_materialization_records_by_key(log, cursor) ==
    LET cursor_dict == CursorDict(cursor, MultiAssetValues)
    IN  IF CursorDictError(cursor, MultiAssetValues)
        THEN [error |-> "routine: cursor is not a cursor dictionary", records |-> EmptyDict]
        ELSE [error |-> "ok",
              records |-> [a \in Range(AssetKeys) |->
                  RecordOrNone(log, get_event_records(log, a, AfterCursor(Get(cursor_dict, a)),
                                                      Range(PartitionKeys), FALSE, 1))]]

\* MultiAssetSensorEvaluationContext.materialization_records_for_key(asset_key, limit):
\* the storage ids, earliest first
materialization_records_for_key(log, cursor, asset_key, limit) ==
    get_event_records(log, asset_key,
                      AfterCursor(Get(CursorDict(cursor, MultiAssetValues), asset_key)),
                      Range(PartitionKeys), TRUE, limit)

\* as MultiAsset_advance_cursor, but an asset without a record loses its entry
MultiAsset_advance_cursor_forgetsPrevious(cursor, materialization_records_by_key) ==
    IF CursorDictError(cursor, MultiAssetValues)
    THEN [error |-> "routine: cursor is not a cursor dictionary", cursor |-> cursor,
          cursor_has_been_updated |-> FALSE]
    ELSE [error |-> "ok",
          cursor |-> json_dumps([k \in DOMAIN materialization_records_by_key |->
                                    IF materialization_records_by_key[k] # NoRecord
                                    THEN <<materialization_records_by_key[k].storage_id>>
                                    ELSE <<>>]),
          cursor_has_been_updated |-> TRUE]

\* MultiAssetSensorEvaluationContext.advance_cursor
MultiAsset_advance_cursor(cursor, materialization_records_by_key) ==
    LET cursor_dict == CursorDict(cursor, MultiAssetValues)
        update_dict == [k \in DOMAIN materialization_records_by_key |->
                           IF materialization_records_by_key[k] # NoRecord
                           THEN <<materialization_records_by_key[k].storage_id>>
                           ELSE Get(cursor_dict, k)]
    IN  IF CursorDictError(cursor, MultiAssetValues)
        THEN [error |-> "routine: cursor is not a cursor dictionary", cursor |-> cursor,
              cursor_has_been_updated |-> FALSE]
        ELSE [error |-> "ok", cursor |-> json_dumps(update_dict),
              cursor_has_been_updated |-> TRUE]

\* PartitionedAssetSensorEvaluationContext._get_cursor: unpacking a null entry raises
Partitioned_get_cursor(cursor, asset_key) ==
    LET unpacked_cursor == CursorDict(cursor, PartitionedValues)
        entry == Get(unpacked_cursor, asset_key)
    IN  IF CursorDictError(cursor, PartitionedValues)
        THEN [error |-> "routine: cursor is not a cursor dictionary",
              partition_key |-> PyNone, cursor |-> 0]
        ELSE IF asset_key \in DOMAIN unpacked_cursor /\ entry = <<>>
        THEN [error |-> "routine: cannot unpack cursor entry",
              partition_key |-> PyNone, cursor |-> 0]
        ELSE IF asset_key \notin DOMAIN unpacked_cursor
        THEN [error |-> "ok", partition_key |-> PyNone, cursor |-> 0]
        ELSE [error |-> "ok", partition_key |-> entry[1], cursor |-> entry[2]]

\* partitions_to_fetch[partitions_to_fetch.index(partition_key):]
PartitionsFrom(partition_key) ==
    IF partition_key = PyNone THEN Range(PartitionKeys)
    ELSE LET at == CHOOSE i \in DOMAIN PartitionKeys : PartitionKeys[i] = partition_key
         IN  {PartitionKeys[i] : i \in at..Len(PartitionKeys)}

\* PartitionedAssetSensorEvaluationContext.latest_materialization_records_by_key()
Partitioned_latest_materialization_records_by_key(log, cursor) ==
    LET at(a) == Partitioned_get_cursor(cursor, a)
        failing == {a \in Range(AssetKeys) : at(a).error # "ok"}
    IN  IF failing # {}
        THEN [error |-> at(CHOOSE a \in failing : TRUE).error, records |-> EmptyDict]
        ELSE [error |-> "ok",
              records |-> [a \in Range(AssetKeys) |->
                  RecordOrNone(log, get_event_records(log, a, at(a).cursor,
                                   PartitionsFrom(at(a).partition_key), FALSE, 1))]]

\* PartitionedAssetSensorEvaluationContext.advance_cursor
Partitioned_advance_cursor(cursor, materialization_records_by_key) ==
    LET cursor_dict == CursorDict(cursor, PartitionedValues)
        update_dict == [k \in DOMAIN materialization_records_by_key |->
                           IF materialization_records_by_key[k] # NoRecord
                           THEN <<materialization_records_by_key[k].partition,
                                  materialization_records_by_key[k].storage_id>>
                           ELSE Get(cursor_dict, k)]
    IN  IF CursorDictError(cursor, PartitionedValues)
        THEN [error |-> "routine: cursor is not a cursor dictionary", cursor |-> cursor,
              cursor_has_been_updated |-> FALSE]
        ELSE [error |-> "ok", cursor |-> json_dumps(update_dict),
              cursor_has_been_updated |-> TRUE]

\* advance_cursor of the context of a kind of sensor
advance_cursor(kind, cursor, materialization_records_by_key) ==
    IF kind = "multi_asset_sensor"
    THEN MultiAsset_advance_cursor(cursor, materialization_records_by_key)
    ELSE Partitioned_advance_cursor(cursor, materialization_records_by_key)

\* advance_all_cursors of the context of a kind of sensor
advance_all_cursors(kind, log, cursor) ==
    LET latest == IF kind = "multi_asset_sensor"
                  THEN MultiAsset_latest_materialization_records_by_key(log, cursor)
                  ELSE Partitioned_latest_materialization_records_by_key(log, cursor)
    IN  IF latest.error # "ok"
        THEN [error |-> latest.error, cursor |-> cursor, cursor_has_been_updated |-> FALSE]
        ELSE advance_cursor(kind, cursor, latest.records)

(***************************************************************************)
(* State.                                                                  *)
(***************************************************************************)
VARIABLES
    sensorKind,                 \* which SensorDefinition subclass the sensor is
    targets,                    \* SensorDefinition._targets, by pipeline_name
    eventLog,                   \* materialization events of the instance
    persistedCursor,            \* the cursor the caller keeps between ticks
    pc,                         \* "ready", "invoking" (routine running), "done"
    ctxCursor,                  \* context._cursor
    cursor_has_been_updated,    \* flag of the asset-aware contexts
    shape,                      \* return shape of the routine in this tick
    produced,                   \* items the running generator has yielded
    eventRecord,                \* record handed to an asset sensor's routine
    outcome,                    \* what evaluate_tick gave the caller
    updatedSinceLastItem,       \* the cursor changed after the last yield
    advanceCalled,              \* advance_cursor or advance_all_cursors was called
    lastReturnedCursor,         \* cursor of the last SensorExecutionData returned
    handedOver,                 \* storage ids of the records handed to an asset sensor's routine
    cronSchedule,              \* the cron string or strings of a tick stream
    executionTimezone,         \* its zone, or None
    startTimestamp,            \* its start instant
    startOffset,               \* start_offset of cron_string_iterator
    ascending,                  \* its direction
    expand_cache,               \* the memo of CroniterShim.expand
    twin,                       \* a second stream created with the same arguments
    iterators,                  \* the generators of the cron strings, once started
    next_dates,                 \* the current element of each generator of a sequence
    emitted,                    \* what the tick stream has yielded so far
    probe,                      \* a function applied on its own, and its result
    sensorContext,              \* _instance_ref, _instance, _exit_stack of a context
    instanceHandles,            \* the instances DagsterInstance.from_ref has opened
    scope,                      \* where the `with` block of the context and its tick are
    accessed                    \* what each read of context.instance gave

vars == <<sensorKind, targets, eventLog, persistedCursor, pc, ctxCursor,
          cursor_has_been_updated, shape, produced, eventRecord, outcome,
          updatedSinceLastItem, advanceCalled, lastReturnedCursor, handedOver,
          cronSchedule, executionTimezone, startTimestamp, startOffset, ascending,
          expand_cache, twin, iterators, next_dates, emitted, probe,
          sensorContext, instanceHandles, scope, accessed>>

\* the variables of the instance handle of a context
instanceScope == <<sensorContext, instanceHandles, scope, accessed>>

NoInstance == [kind |-> "None"]

\* SensorEvaluationContext.__init__: the fields the instance property uses
NewContext(instance_ref, instance) ==
    [_instance_ref |-> instance_ref, _instance |-> instance, _exit_stack |-> <<>>]

\* their values while no context is followed
NoScope ==
    /\ sensorContext = NewContext(PyNone, NoInstance)
    /\ instanceHandles = <<>>
    /\ scope = [at |-> "none", tick |-> "none", direct |-> FALSE]
    /\ accessed = <<>>

config == <<sensorKind, targets>>

\* the variables of a tick stream, and their values while no stream is run
tickStream == <<cronSchedule, executionTimezone, startTimestamp, startOffset, ascending,
                expand_cache, twin, iterators, next_dates, emitted, probe>>

NoProbe == [op |-> "none"]

\* a stream nothing has been asked of
NoStream == [iterators |-> <<>>, next_dates |-> <<>>, emitted |-> <<>>]

NoTickStream ==
    /\ cronSchedule = [seq |-> <<>>]
    /\ executionTimezone = PyNone
    /\ startTimestamp = 0
    /\ startOffset = 0
    /\ ascending = TRUE
    /\ expand_cache = <<>>
    /\ twin = NoStream
    /\ iterators = <<>>
    /\ next_dates = <<>>
    /\ emitted = <<>>
    /\ probe = NoProbe

\* values a routine passes to update_cursor
UserCursors == {PyNone, "x"}

Init ==
    /\ sensorKind \in SensorKinds
    /\ targets \in TargetListsOf(sensorKind)
    /\ eventLog = <<>>
    /\ persistedCursor = PyNone
    /\ pc = "ready"
    /\ ctxCursor = PyNone
    /\ cursor_has_been_updated = FALSE
    /\ shape = "value"
    /\ produced = <<>>
    /\ eventRecord = NoRecord
    /\ outcome = NoOutcome
    /\ updatedSinceLastItem = FALSE
    /\ advanceCalled = FALSE
    /\ lastReturnedCursor = PyNone
    /\ handedOver = {}
    /\ NoTickStream
    /\ NoScope

(***************************************************************************)
(* A materialization of an asset is appended to the event log.             *)
(***************************************************************************)
Materialize(asset_key, partition) ==
    /\ sensorKind # "sensor"
    /\ Len(eventLog) < MaxEvents
    /\ eventLog' = Append(eventLog, [asset_key |-> asset_key, partition |-> partition])
    /\ UNCHANGED <<instanceScope, tickStream, config, handedOver, persistedCursor, pc, ctxCursor,
                   cursor_has_been_updated, shape,
                   produced, eventRecord, outcome, updatedSinceLastItem, advanceCalled,
                   lastReturnedCursor>>

(***************************************************************************)
(* The end of the routine: `returned` is what it returned (the items of    *)
(* its list, its single value, or what its generator yielded).  The        *)
(* evaluation function is consumed to its end and evaluate_tick classifies,*)
(* validates and packages.  An asset sensor's wrapper first moves the      *)
(* cursor to the storage id of the record it handed to the routine.        *)
(***************************************************************************)
FinalCursor(kind, cursor, record) ==
    IF kind = "asset_sensor" THEN update_cursor(str(record.storage_id)) ELSE cursor

Returns(result, previous) ==
    /\ outcome' = result
    /\ lastReturnedCursor' = IF result.status = "ok" THEN result.data.cursor ELSE previous

Complete(returned) ==
    LET evaluation == evaluation_fn(sensorKind, shape, returned, cursor_has_been_updated)
        cursor == FinalCursor(sensorKind, ctxCursor, eventRecord)
    IN  /\ ctxCursor' = cursor
        /\ Returns(evaluate_tick(evaluation, targets, persistedCursor, cursor),
                   lastReturnedCursor)
        /\ pc' = "done"
        /\ updatedSinceLastItem' = (updatedSinceLastItem \/ cursor # ctxCursor)
        /\ UNCHANGED <<instanceScope, tickStream, config, handedOver, eventLog, persistedCursor, cursor_has_been_updated, shape,
                       eventRecord, advanceCalled>>

\* an exception of the routine leaves evaluate_tick
Fail(error) ==
    /\ outcome' = Raised(error)
    /\ pc' = "done"
    /\ UNCHANGED <<instanceScope, tickStream, config, handedOver, eventLog, persistedCursor, ctxCursor, cursor_has_been_updated,
                   shape, produced, eventRecord, updatedSinceLastItem, lastReturnedCursor>>

(***************************************************************************)
(* The caller builds a context from the persisted cursor and calls         *)
(* evaluate_tick, which starts the evaluation function.  An asset sensor   *)
(* looks up the latest materialization after the cursor and, when there is *)
(* none, ends without calling the routine.                                 *)
(***************************************************************************)
_fn_entry_keepsFlag(kind, context, left_over) ==
    IF kind \in AssetAwareKinds THEN left_over ELSE context.cursor_has_been_updated

\* the first statement of _fn in the wrappers of the asset-aware sensors:
\* context.cursor_has_been_updated = False, whatever an earlier tick left
_fn_entry(kind, context, left_over) ==
    IF kind \in AssetAwareKinds THEN FALSE ELSE context.cursor_has_been_updated

AssetAfterCursor_ignoresCursor(cursor) ==
    0

AssetAfterCursor(cursor) ==
    IF Truthy(cursor) /\ int(cursor) # ValueError THEN int(cursor) ELSE 0

BeginTick(sh) ==
    /\ pc = "ready"
    /\ LET context == SensorEvaluationContext(persistedCursor)
           event_records == get_event_records(eventLog, AssetKey,
                                AssetAfterCursor(context.cursor), Range(PartitionKeys),
                                FALSE, 1)
       IN  /\ cursor_has_been_updated' = _fn_entry(sensorKind, context, cursor_has_been_updated)
           /\ produced' = <<>>
           /\ updatedSinceLastItem' = FALSE
           /\ advanceCalled' = FALSE
           /\ IF sensorKind = "asset_sensor" /\ event_records = <<>>
              THEN /\ ctxCursor' = context.cursor
                   /\ shape' = "generator"
                   /\ eventRecord' = NoRecord
                   /\ Returns(evaluate_tick(Yielded(<<>>), targets, context.cursor,
                                            context.cursor), lastReturnedCursor)
                   /\ pc' = "done"
              ELSE /\ ctxCursor' = context.cursor
                   /\ shape' = sh
                   /\ eventRecord' = IF sensorKind = "asset_sensor"
                                     THEN EventLogRecord(eventLog, event_records[1])
                                     ELSE NoRecord
                   /\ outcome' = NoOutcome
                   /\ lastReturnedCursor' = lastReturnedCursor
                   /\ pc' = "invoking"
           /\ handedOver' = IF sensorKind = "asset_sensor" /\ event_records # <<>>
                            THEN handedOver \cup {event_records[1]} ELSE handedOver
    /\ UNCHANGED <<instanceScope, tickStream, config, eventLog, persistedCursor>>

(***************************************************************************)
(* Steps of the routine.                                                   *)
(***************************************************************************)
\* context.update_cursor(cursor)
UpdateCursor(cursor) ==
    /\ pc = "invoking"
    /\ ctxCursor' = update_cursor(cursor)
    /\ updatedSinceLastItem' = TRUE
    /\ UNCHANGED <<instanceScope, tickStream, config, handedOver, eventLog, persistedCursor, pc, cursor_has_been_updated, shape,
                   produced, eventRecord, outcome, advanceCalled, lastReturnedCursor>>

Advance(result) ==
    IF result.error # "ok" THEN Fail(result.error) /\ advanceCalled' = TRUE
    ELSE /\ ctxCursor' = result.cursor
         /\ cursor_has_been_updated' = result.cursor_has_been_updated
         /\ updatedSinceLastItem' = TRUE
         /\ advanceCalled' = TRUE
         /\ UNCHANGED <<instanceScope, tickStream, config, handedOver, eventLog, persistedCursor, pc, shape, produced, eventRecord,
                        outcome, lastReturnedCursor>>

\* the records of an asset key a routine can hold, and None
RecordsOf(asset_key) ==
    {NoRecord} \cup {EventLogRecord(eventLog, i) :
                        i \in {j \in DOMAIN eventLog : eventLog[j].asset_key = asset_key}}

RecordMappings ==
    UNION {{m \in [keys -> UNION {RecordsOf(k) : k \in keys}] :
               \A k \in keys : m[k] \in RecordsOf(k)} : keys \in SUBSET Range(AssetKeys)}

\* context.advance_cursor(materialization_records_by_key)
AdvanceCursor(materialization_records_by_key) ==
    /\ pc = "invoking"
    /\ sensorKind \in AssetAwareKinds
    /\ Advance(advance_cursor(sensorKind, ctxCursor, materialization_records_by_key))

\* context.advance_all_cursors()
AdvanceAllCursors ==
    /\ pc = "invoking"
    /\ sensorKind \in AssetAwareKinds
    /\ Advance(advance_all_cursors(sensorKind, eventLog, ctxCursor))

\* the routine is a generator and yields an item
Yield(item) ==
    /\ pc = "invoking"
    /\ shape = "generator"
    /\ Len(produced) < MaxItems
    /\ produced' = Append(produced, item)
    /\ updatedSinceLastItem' = FALSE
    /\ UNCHANGED <<instanceScope, tickStream, config, handedOver, eventLog, persistedCursor, pc, ctxCursor,
                   cursor_has_been_updated, shape, eventRecord, outcome, advanceCalled,
                   lastReturnedCursor>>

\* the generator of the routine is exhausted
Exhaust ==
    /\ pc = "invoking"
    /\ shape = "generator"
    /\ UNCHANGED produced
    /\ Complete(produced)

\* the routine returns a list
ReturnList ==
    /\ pc = "invoking"
    /\ shape = "list"
    /\ \E items \in ItemSeqs(ItemsOf(sensorKind), MaxItems) :
           /\ produced' = items
           /\ Complete(items)

\* the routine returns one value, None included
ReturnValue(value) ==
    /\ pc = "invoking"
    /\ shape = "value"
    /\ produced' = <<value>>
    /\ Complete(<<value>>)

(***************************************************************************)
(* The caller takes the outcome and persists the cursor of a returned      *)
(* SensorExecutionData.  The context object outlives the tick and may be   *)
(* handed to the next one: its cursor is set anew from the persisted one,  *)
(* its cursor_has_been_updated attribute stays as the tick left it.        *)
(***************************************************************************)
EndTick ==
    /\ pc = "done"
    /\ persistedCursor' = IF outcome.status = "ok" THEN outcome.data.cursor
                          ELSE persistedCursor
    /\ pc' = "ready"
    /\ ctxCursor' = PyNone
    /\ shape' = "value"
    /\ produced' = <<>>
    /\ eventRecord' = NoRecord
    /\ outcome' = NoOutcome
    /\ updatedSinceLastItem' = FALSE
    /\ advanceCalled' = FALSE
    /\ UNCHANGED <<instanceScope, tickStream, config, handedOver, eventLog, lastReturnedCursor,
                   cursor_has_been_updated>>

Next ==
    \/ \E a \in Range(AssetKeys), p \in Range(PartitionKeys) : Materialize(a, p)
    \/ \E sh \in Shapes : BeginTick(sh)
    \/ \E c \in UserCursors : UpdateCursor(c)
    \/ \E m \in RecordMappings : AdvanceCursor(m)
    \/ AdvanceAllCursors
    \/ \E item \in ItemsOf(sensorKind) : Yield(item)
    \/ Exhaust
    \/ ReturnList
    \/ \E value \in ItemsOf(sensorKind) : ReturnValue(value)
    \/ EndTick

Spec == Init /\ [][Next]_vars

(***************************************************************************)
(* A multi-asset sensor whose routine moves its cursor with                *)
(* advance_all_cursors only, over ticks and materializations.              *)
(***************************************************************************)
AdvanceAllInit == Init /\ sensorKind = "multi_asset_sensor"

AdvanceAllNext ==
    \/ \E a \in Range(AssetKeys), p \in Range(PartitionKeys) : Materialize(a, p)
    \/ \E sh \in Shapes : BeginTick(sh)
    \/ AdvanceAllCursors
    \/ \E item \in ItemsOf(sensorKind) : Yield(item)
    \/ Exhaust
    \/ ReturnList
    \/ \E value \in ItemsOf(sensorKind) : ReturnValue(value)
    \/ EndTick

AdvanceAllSpec == AdvanceAllInit /\ [][AdvanceAllNext]_vars

(***************************************************************************)
(* The instance handle of a context.  A context is built from an instance  *)
(* reference, from an instance given directly, from both or from neither;  *)
(* its caller runs the tick inside `with context:`, and the routine reads  *)
(* context.instance.  A handle is an instance DagsterInstance.from_ref has *)
(* opened; the exit stack of the context closes those entered into it.     *)
(***************************************************************************)
MaxAccesses == 3

InstanceRefs == {PyNone, "instance_ref"}

DirectInstance == [kind |-> "direct"]

\* DagsterInstance.from_ref(ref) entered into the exit stack: one more open
\* handle
from_ref(handles) == [kind |-> "from_ref", id |-> Len(handles) + 1]

\* as the instance property, but a context built from a reference opens an
\* instance at each read
instance_acquiresEachTime(ctx, handles) ==
    IF ctx._instance.kind # "direct" /\ Truthy(ctx._instance_ref)
    THEN [error |-> "ok", value |-> from_ref(handles),
          context |-> [ctx EXCEPT !._instance = from_ref(handles),
                                  !._exit_stack = Append(@, from_ref(handles).id)],
          handles |-> Append(handles, "open")]
    ELSE [error |-> IF ctx._instance.kind = "direct" THEN "ok"
                    ELSE "DagsterInvariantViolationError",
          value |-> ctx._instance, context |-> ctx, handles |-> handles]

\* the instance property: its value or exception, the context and the
\* handles after it
instance(ctx, handles) ==
    IF ctx._instance = NoInstance
    THEN IF ~Truthy(ctx._instance_ref)
         THEN [error |-> "DagsterInvariantViolationError", value |-> NoInstance,
               context |-> ctx, handles |-> handles]
         ELSE [error |-> "ok", value |-> from_ref(handles),
               context |-> [ctx EXCEPT !._instance = from_ref(handles),
                                       !._exit_stack = Append(@, from_ref(handles).id)],
               handles |-> Append(handles, "open")]
    ELSE [error |-> "ok", value |-> ctx._instance, context |-> ctx, handles |-> handles]

\* ExitStack.close: every handle entered is closed and the stack is empty
close(exit_stack, handles) ==
    [h \in DOMAIN handles |-> IF h \in Range(exit_stack) THEN "closed" ELSE handles[h]]

ScopeInit ==
    /\ sensorKind = "sensor"
    /\ targets = <<>>
    /\ eventLog = <<>>
    /\ persistedCursor = PyNone
    /\ pc = "ready"
    /\ ctxCursor = PyNone
    /\ cursor_has_been_updated = FALSE
    /\ shape = "value"
    /\ produced = <<>>
    /\ eventRecord = NoRecord
    /\ outcome = NoOutcome
    /\ updatedSinceLastItem = FALSE
    /\ advanceCalled = FALSE
    /\ lastReturnedCursor = PyNone
    /\ handedOver = {}
    /\ NoTickStream
    /\ \E instance_ref \in InstanceRefs, given \in {NoInstance, DirectInstance} :
           /\ sensorContext = NewContext(instance_ref, given)
           /\ scope = [at |-> "built", tick |-> "none", direct |-> given = DirectInstance]
    /\ instanceHandles = <<>>
    /\ accessed = <<>>

tickVars == <<sensorKind, targets, eventLog, persistedCursor, pc, ctxCursor,
              cursor_has_been_updated, shape, produced, eventRecord, outcome,
              updatedSinceLastItem, advanceCalled, lastReturnedCursor, handedOver>>

\* __enter__: the caller's `with context:` begins and the tick starts
Enter ==
    /\ scope.at = "built"
    /\ scope' = [scope EXCEPT !.at = "entered", !.tick = "running"]
    /\ UNCHANGED <<tickVars, tickStream, sensorContext, instanceHandles, accessed>>

\* a read of context.instance, by the routine during the tick or by the
\* code that holds the context before and after the `with` block
AccessInstance ==
    /\ scope.at \in {"built", "entered", "exited"}
    /\ scope.tick \in {"none", "running"} \/ scope.at = "exited"
    /\ Len(accessed) < MaxAccesses
    /\ \E r \in {instance(sensorContext, instanceHandles)} :
           /\ sensorContext' = r.context
           /\ instanceHandles' = r.handles
           /\ accessed' = Append(accessed, [error |-> r.error, value |-> r.value,
                                            at |-> scope.at])
    /\ UNCHANGED <<tickVars, tickStream, scope>>

\* the tick ends inside the `with` block: it returns or it raises
TickEnds(how) ==
    /\ scope.at = "entered" /\ scope.tick = "running"
    /\ scope' = [scope EXCEPT !.tick = how]
    /\ UNCHANGED <<tickVars, tickStream, sensorContext, instanceHandles, accessed>>

\* __exit__: the `with` block is left, with or without an exception
Exit ==
    /\ scope.at = "entered" /\ scope.tick \in {"succeeded", "raised"}
    /\ instanceHandles' = close(sensorContext._exit_stack, instanceHandles)
    /\ sensorContext' = [sensorContext EXCEPT !._exit_stack = <<>>]
    /\ scope' = [scope EXCEPT !.at = "exited"]
    /\ UNCHANGED <<tickVars, tickStream, accessed>>

ScopeNext ==
    \/ Enter
    \/ AccessInstance
    \/ \E how \in {"succeeded", "raised"} : TickEnds(how)
    \/ Exit

ScopeSpec == ScopeInit /\ [][ScopeNext]_vars

TypeOK ==
    /\ sensorKind \in SensorKinds
    /\ targets \in TargetLists
    /\ pc \in {"ready", "invoking", "done"}
    /\ shape \in Shapes
    /\ Len(produced) <= MaxItems
    /\ outcome.status \in {"none", "ok", "failed"}

(***************************************************************************)
(* Properties.                                                             *)
(***************************************************************************)
HasRunRequest(items) == \E i \in DOMAIN items : IsRunRequest(items[i])

HasSkipReason(items) == \E i \in DOMAIN items : IsSkipReason(items[i])

TargetingErrors ==
    {"targeting: no target", "targeting: job_name missing", "targeting: job_name unknown"}

\* the exceptions of the routine itself
RoutineErrors ==
    {"routine: cursor is not a cursor dictionary", "routine: cannot unpack cursor entry"}

\* the tick is over and the routine ran to its end without raising
Finished == pc = "done" /\ outcome.error \notin RoutineErrors

Succeeded == pc = "done" /\ outcome.status = "ok"

Failed == pc = "done" /\ outcome.status = "failed" /\ outcome.data = NoData

\* C1: a SensorExecutionData returned by evaluate_tick never has both a
\* non-empty run_requests list and a non-empty skip_message.
C1_NeverRunRequestsAndSkipMessage ==
    Succeeded => ~(outcome.data.run_requests # <<>> /\ Truthy(outcome.data.skip_message))

\* a tick of several items, run requests among them, has returned its data
C1_Witness ==
    /\ Succeeded
    /\ Len(produced) = 2
    /\ Len(outcome.data.run_requests) = 2
    /\ outcome.data.skip_message = PyNone

\* C2: when the routine produces two or more items and at least one of them
\* is a skip signal, evaluate_tick fails and returns no SensorExecutionData.
C2_SkipAmongSeveralItemsFails ==
    pc = "done" /\ Len(produced) >= 2 /\ HasSkipReason(produced) => Failed

\* a tick of two skip signals has been rejected as such
C2_Witness ==
    /\ Failed
    /\ Len(produced) = 2
    /\ \A i \in DOMAIN produced : IsSkipReason(produced[i])
    /\ outcome.error = "classification: multiple SkipReasons"

\* C3 as stated: with no configured target, evaluate_tick fails when the
\* routine produces a run request and succeeds when it produces none.
C3_Original ==
    Finished /\ targets = <<>> =>
        IF HasRunRequest(produced) THEN Failed ELSE Succeeded

\* C3 as amended: with no configured target, evaluate_tick fails and returns no
\* data when the routine produces a run request, and when it produces none the
\* tick is never rejected by the targeting check.
C3_NoTarget ==
    Finished /\ targets = <<>> =>
        IF HasRunRequest(produced) THEN Failed
        ELSE outcome.error \notin TargetingErrors

\* a sensor without target has been refused a run request by the targeting check
C3_Witness ==
    /\ Failed
    /\ targets = <<>>
    /\ HasRunRequest(produced)
    /\ outcome.error = "targeting: no target"

\* C4: with more than one configured target, evaluate_tick succeeds only if
\* every produced run request carries a job_name that is one of the
\* configured target names.
C4_Claim ==
    Succeeded /\ Len(targets) > 1 =>
        \A i \in DOMAIN produced :
            IsRunRequest(produced[i]) => produced[i].job_name \in Range(targets)

\* C5: on a multi-asset or partitioned-asset sensor, a routine that produces a
\* run request without advance_cursor or advance_all_cursors being called
\* makes evaluate_tick fail with the cursor-not-advanced error.
C5_RunRequestWithoutAdvanceFails ==
    pc = "done" /\ sensorKind \in AssetAwareKinds /\ HasRunRequest(produced)
        /\ ~advanceCalled
        => Failed /\ outcome.error = CursorNotAdvanced

\* a run request was produced after a plain update_cursor, and the tick failed
C5_Witness ==
    /\ Failed
    /\ sensorKind \in AssetAwareKinds
    /\ HasRunRequest(produced)
    /\ ~advanceCalled
    /\ ctxCursor # persistedCursor
    /\ outcome.error = CursorNotAdvanced

\* C6: on a multi-asset or partitioned-asset sensor, the cursor-not-advanced
\* failure is raised only when the routine produced a run request.
C6_Claim ==
    pc = "done" /\ sensorKind \in AssetAwareKinds /\ ~HasRunRequest(produced)
        => outcome.error # CursorNotAdvanced

\* C7: the cursor of the returned SensorExecutionData is the context's cursor
\* after the routine's whole output has been consumed.
C7_ReturnedCursorIsFinalCursor ==
    Succeeded => outcome.data.cursor = ctxCursor

\* a generator moved the cursor after its last item and the data carries it
C7_Witness ==
    /\ Succeeded
    /\ shape = "generator"
    /\ produced # <<>>
    /\ updatedSinceLastItem
    /\ outcome.data.cursor # persistedCursor

\* C8: a rejected tick gives the caller no data and leaves the persisted
\* cursor as it is, and every tick starts from the cursor of the last
\* SensorExecutionData returned.
C8_RejectedTickKeepsCursor ==
    [][/\ (pc = "done" /\ outcome.status = "failed"
              => outcome.data = NoData /\ persistedCursor' = persistedCursor)
       /\ (pc = "ready" /\ pc' # "ready" => ctxCursor' = lastReturnedCursor)]_vars

\* a tick is being rejected after it moved its context's cursor away from the
\* cursor an earlier tick returned
C8_Witness ==
    /\ Failed
    /\ persistedCursor # PyNone
    /\ persistedCursor = lastReturnedCursor
    /\ ctxCursor # persistedCursor

\* C9: when the routine produces no item, or None alone, evaluate_tick returns
\* no run request, no run reaction, the empty-result skip message and the
\* context's cursor.
C9_Claim ==
    Finished /\ produced \in {<<>>, <<NoneItem>>} =>
        outcome = Returned([run_requests |-> <<>>,
                            skip_message |-> EmptyResultMessage,
                            cursor |-> ctxCursor,
                            pipeline_run_reactions |-> <<>>])

\* C10: when the routine produces exactly one item, a skip signal gives its
\* message and no run request, a run request gives that run request and no
\* skip message, a run reaction gives that reaction alone; the tick may
\* instead be rejected by the targeting or cursor-advance check.
C10_Claim ==
    Finished /\ Len(produced) = 1 /\ IsSensorItem(produced[1]) =>
        \/ Failed /\ outcome.error \in TargetingErrors \cup {CursorNotAdvanced}
        \/ /\ Succeeded
           /\ outcome.data.run_requests =
                  IF IsRunRequest(produced[1]) THEN produced ELSE <<>>
           /\ outcome.data.pipeline_run_reactions =
                  IF IsPipelineRunReaction(produced[1]) THEN produced ELSE <<>>
           /\ outcome.data.skip_message =
                  IF IsSkipReason(produced[1]) THEN produced[1].skip_message ELSE PyNone

\* the errors with which evaluate_tick rejects the output of a routine
ClassificationErrors ==
    {"classification: unexpected output", "classification: unexpected item type",
     "classification: both RunRequest and SkipReason",
     "classification: both PipelineRunReaction and SkipReason",
     "classification: multiple SkipReasons", CursorNotAdvanced}

\* C11: when the routine returns, or produces inside a list or generator, a
\* value that is not a skip signal, a run request or a run reaction (a lone
\* None apart), evaluate_tick fails with a classification error and returns
\* no SensorExecutionData.
C11_Claim ==
    /\ Finished
    /\ produced # <<NoneItem>>
    /\ \E i \in DOMAIN produced : ~IsSensorItem(produced[i])
    => Failed /\ outcome.error \in ClassificationErrors

(***************************************************************************)
(* Cron tick resolution (_utils/schedules.py).                             *)
(*                                                                         *)
(* An instant is a number of seconds since 1970-01-01T00:00:00Z.  A        *)
(* datetime is an instant together with the name of its zone; its local    *)
(* fields are derived from the instant and the zone's offset at it.  A     *)
(* result that may be an exception carries it in `error`.                  *)
(***************************************************************************)
DateTime(ts, tz) == [error |-> "ok", ts |-> ts, tz |-> tz]

\* a local variable: the body F of the value, computed once
Bind(value, F(_)) == F(value)

Failure(e, tz) == [error |-> e, ts |-> 0, tz |-> tz]

\* calendar.isleap
isleap(year) == year % 4 = 0 /\ (year % 100 # 0 \/ year % 400 = 0)

DaysInMonth(year, month) ==
    IF month = 2 THEN (IF isleap(year) THEN 29 ELSE 28)
    ELSE IF month \in {4, 6, 9, 11} THEN 30 ELSE 31

\* the number of days from 1970-01-01 to the given date of the proleptic
\* Gregorian calendar, and back
days_from_civil(year, month, day) ==
    LET y == IF month <= 2 THEN year - 1 ELSE year
        era == y \div 400
        yoe == y - era * 400
        mp == (month + 9) % 12
        doy == (153 * mp + 2) \div 5 + day - 1
        doe == yoe * 365 + yoe \div 4 - yoe \div 100 + doy
    IN  era * 146097 + doe - 719468

civil_from_days(days) ==
    LET z == days + 719468
        era == z \div 146097
        doe == z - era * 146097
    IN  Bind((doe - doe \div 1460 + doe \div 36524 - doe \div 146096) \div 365, LAMBDA yoe :
        Bind(doe - (365 * yoe + yoe \div 4 - yoe \div 100), LAMBDA doy :
        Bind((5 * doy + 2) \div 153, LAMBDA mp :
        Bind(IF mp < 10 THEN mp + 3 ELSE mp - 9, LAMBDA month :
            [year |-> yoe + era * 400 + (IF month <= 2 THEN 1 ELSE 0),
             month |-> month,
             day |-> doy - (153 * mp + 2) \div 5 + 1]))))

\* day of the week of a day number, 0 = Sunday
weekday(days) == (days + 4) % 7

\* the day of the month of the n-th Sunday of a month
NthSunday(year, month, n) ==
    1 + ((7 - weekday(days_from_civil(year, month, 1))) % 7) + 7 * (n - 1)

(***************************************************************************)
(* The zones of the model: UTC; US/Central, six hours behind UTC and five  *)
(* from 02:00 standard time of the second Sunday of March (08:00 UTC) to   *)
(* 02:00 daylight time of the first Sunday of November (07:00 UTC); and    *)
(* Antarctica/Troll, on UTC and two hours ahead of it from 01:00 UTC of    *)
(* the last Sunday of March to 01:00 UTC of the last Sunday of October,    *)
(* so that its wall clock skips two hours.                                 *)
(***************************************************************************)
Timezones == {"UTC", "US/Central", "Antarctica/Troll"}

Offsets(tz) ==
    IF tz = "UTC" THEN {0} ELSE IF tz = "Antarctica/Troll" THEN {0, 7200} ELSE {0 - 21600, 0 - 18000}

\* the day of the month of the last Sunday of a month
LastSunday(year, month) ==
    IF NthSunday(year, month, 5) <= DaysInMonth(year, month) THEN NthSunday(year, month, 5)
    ELSE NthSunday(year, month, 4)

utcoffset(tz, ts) ==
    IF tz = "UTC" THEN 0
    ELSE IF tz = "Antarctica/Troll"
    THEN Bind(civil_from_days(ts \div 86400).year, LAMBDA year :
             LET dst_start == days_from_civil(year, 3, LastSunday(year, 3)) * 86400 + 3600
                 dst_end == days_from_civil(year, 10, LastSunday(year, 10)) * 86400 + 3600
             IN  IF dst_start <= ts /\ ts < dst_end THEN 7200 ELSE 0)
    ELSE Bind(civil_from_days(ts \div 86400).year, LAMBDA year :
             LET dst_start == days_from_civil(year, 3, NthSunday(year, 3, 2)) * 86400 + 28800
                 dst_end == days_from_civil(year, 11, NthSunday(year, 11, 1)) * 86400 + 25200
             IN  IF dst_start <= ts /\ ts < dst_end THEN 0 - 18000 ELSE 0 - 21600)

\* the local date and wall clock of a datetime
Local(dt) ==
    Bind(dt.ts + utcoffset(dt.tz, dt.ts), LAMBDA wall :
    Bind(civil_from_days(wall \div 86400), LAMBDA date :
        LET sod == wall % 86400
        IN  [year |-> date.year, month |-> date.month, day |-> date.day,
             hour |-> sod \div 3600, minute |-> (sod % 3600) \div 60, second |-> sod % 60,
             day_of_week |-> weekday(wall \div 86400)]))

SetMax(S) == CHOOSE x \in S : \A y \in S : y <= x

SetMin(S) == CHOOSE x \in S : \A y \in S : x <= y

\* the instants of a zone whose local date and wall clock are the given ones:
\* none in a spring-forward gap, two in a fall-back overlap
InstantsAt(year, month, day, hour, minute, second, tz) ==
    LET wall == days_from_civil(year, month, day) * 86400
                    + hour * 3600 + minute * 60 + second
    IN  {wall - o : o \in {x \in Offsets(tz) : utcoffset(tz, wall - x) = x}}

(***************************************************************************)
(* create_pendulum_time: the datetime of a local date and wall clock.      *)
(* Under TRANSITION_ERROR a wall clock that does not exist or exists twice *)
(* raises; POST_TRANSITION moves a wall clock in a gap forward by the gap  *)
(* and takes the later of two instants, PRE_TRANSITION moves it back and   *)
(* takes the earlier.                                                      *)
(***************************************************************************)
create_pendulum_time(year, month, day, hour, minute, second, tz, dst_rule) ==
    IF day < 1 \/ day > DaysInMonth(year, month) \/ hour > 23 \/ minute > 59
    THEN Failure("ValueError", tz)
    ELSE Bind(InstantsAt(year, month, day, hour, minute, second, tz), LAMBDA exact :
             LET wall == days_from_civil(year, month, day) * 86400
                             + hour * 3600 + minute * 60 + second
                 shifted == {wall - o : o \in Offsets(tz)}
             IN  IF dst_rule = "TRANSITION_ERROR" /\ exact = {}
                 THEN Failure("NonExistingTime", tz)
                 ELSE IF dst_rule = "TRANSITION_ERROR" /\ Cardinality(exact) > 1
                 THEN Failure("AmbiguousTime", tz)
                 ELSE IF Cardinality(exact) = 1
                 THEN DateTime(CHOOSE t \in exact : TRUE, tz)
                 ELSE Bind(shifted, LAMBDA both :
                          DateTime(IF dst_rule = "PRE_TRANSITION" THEN SetMin(both)
                                   ELSE SetMax(both), tz)))

\* pendulum.from_timestamp
from_timestamp(timestamp, tz) == DateTime(timestamp, tz)

(***************************************************************************)
(* DateTime.add (subtract is add of the negated amount).  Months, weeks    *)
(* and days are added to the local date, the wall clock is kept and the    *)
(* result is created anew in the zone under POST_TRANSITION; a day past    *)
(* the end of the month reached is clamped to its last day.  Hours are     *)
(* added to the instant.                                                   *)
(***************************************************************************)
add(d, unit, num) ==
    IF d.error # "ok" THEN d
    ELSE IF unit = "hours" THEN DateTime(d.ts + num * 3600, d.tz)
    ELSE Bind(Local(d), LAMBDA l :
             LET months == l.year * 12 + (l.month - 1) + num
                 year == months \div 12
                 month == (months % 12) + 1
             IN  Bind(IF unit = "months"
                      THEN [year |-> year, month |-> month,
                            day |-> Bind(DaysInMonth(year, month), LAMBDA last :
                                        IF l.day > last THEN last ELSE l.day)]
                      ELSE civil_from_days(days_from_civil(l.year, l.month, l.day)
                               + (IF unit = "weeks" THEN 7 * num ELSE num)), LAMBDA date :
                 create_pendulum_time(date.year, date.month, date.day,
                     l.hour, l.minute, l.second, d.tz, "POST_TRANSITION")))

subtract(d, unit, num) == add(d, unit, 0 - num)

\* DateTime.replace(minute=...), DateTime.set(hour=...), DateTime.set(minute=...):
\* the datetime of the same local date with the given wall clock
set(d, hour, minute) ==
    IF d.error # "ok" THEN d
    ELSE Bind(Local(d), LAMBDA l :
             create_pendulum_time(l.year, l.month, l.day, hour, minute, l.second, d.tz,
                                  "POST_TRANSITION"))

\* as _replace_date_fields, but a wall clock in a gap is moved forward by the
\* length of the gap
_replace_date_fields_shiftsByGap(pendulum_date, hour, minute, day) ==
    IF pendulum_date.error # "ok" THEN pendulum_date
    ELSE Bind(Local(pendulum_date), LAMBDA l :
             create_pendulum_time(l.year, l.month, day, hour, minute, 0,
                                  pendulum_date.tz, "POST_TRANSITION"))

\* as _replace_date_fields, but the earlier of two instants is taken
_replace_date_fields_takesEarlier(pendulum_date, hour, minute, day) ==
    IF pendulum_date.error # "ok" THEN pendulum_date
    ELSE Bind(Local(pendulum_date), LAMBDA l :
         Bind(create_pendulum_time(l.year, l.month, day, hour, minute, 0,
                                   pendulum_date.tz, "TRANSITION_ERROR"), LAMBDA new_time :
             IF new_time.error = "NonExistingTime"
             THEN create_pendulum_time(l.year, l.month, day, hour + 1, 0, 0,
                                       pendulum_date.tz, "TRANSITION_ERROR")
             ELSE IF new_time.error = "AmbiguousTime"
             THEN create_pendulum_time(l.year, l.month, day, hour, minute, 0,
                                       pendulum_date.tz, "PRE_TRANSITION")
             ELSE new_time))

(***************************************************************************)
(* _replace_date_fields: the datetime of the year and month of             *)
(* pendulum_date with the given day, hour and minute.  A wall clock that   *)
(* does not exist becomes the start of the next hour, of a wall clock that *)
(* exists twice the later instant is taken; any other exception (a day the *)
(* month does not have) leaves the function.                                *)
(***************************************************************************)
_replace_date_fields(pendulum_date, hour, minute, day) ==
    IF pendulum_date.error # "ok" THEN pendulum_date
    ELSE Bind(Local(pendulum_date), LAMBDA l :
         Bind(create_pendulum_time(l.year, l.month, day, hour, minute, 0,
                                   pendulum_date.tz, "TRANSITION_ERROR"), LAMBDA new_time :
             IF new_time.error = "NonExistingTime"
             THEN create_pendulum_time(l.year, l.month, day, hour + 1, 0, 0,
                                       pendulum_date.tz, "TRANSITION_ERROR")
             ELSE IF new_time.error = "AmbiguousTime"
             THEN create_pendulum_time(l.year, l.month, day, hour, minute, 0,
                                       pendulum_date.tz, "POST_TRANSITION")
             ELSE new_time))

ScheduleTypes == {"HOURLY", "DAILY", "WEEKLY", "MONTHLY"}

\* as _find_previous_schedule_time, but an instant that is not before the
\* reference is kept
_find_previous_schedule_time_keepsReference(minute, hour, day, day_of_week, schedule_type, pendulum_date) ==
    IF schedule_type = "HOURLY"
    THEN from_timestamp(pendulum_date.ts - (pendulum_date.ts % 60)
                            - 60 * ((Local(pendulum_date).minute - minute) % 60),
                        pendulum_date.tz)
    ELSE IF schedule_type = "WEEKLY"
    THEN Bind(_replace_date_fields(pendulum_date, hour, minute,
                                   Local(pendulum_date).day), LAMBDA at_time :
         Bind(subtract(at_time, "days",
                       (Local(at_time).day_of_week - day_of_week) % 7), LAMBDA moved :
             _replace_date_fields(moved, hour, minute, Local(moved).day)))
    ELSE _replace_date_fields(pendulum_date, hour, minute,
                              IF schedule_type = "MONTHLY" THEN day
                              ELSE Local(pendulum_date).day)

\* as _find_previous_schedule_time, but an hourly schedule keeps the seconds of
\* the reference
_find_previous_schedule_time_keepsSeconds(minute, hour, day, day_of_week, schedule_type, pendulum_date) ==
    IF pendulum_date.error # "ok" THEN pendulum_date
    ELSE IF schedule_type = "HOURLY"
    THEN Bind(pendulum_date.ts
                  - 60 * ((Local(pendulum_date).minute - minute) % 60), LAMBDA new_timestamp :
             from_timestamp(IF new_timestamp >= pendulum_date.ts
                            THEN new_timestamp - 60 * 60 ELSE new_timestamp,
                            pendulum_date.tz))
    ELSE IF schedule_type = "DAILY"
    THEN Bind(_replace_date_fields(pendulum_date, hour, minute,
                                   Local(pendulum_date).day), LAMBDA new_time :
             IF new_time.error = "ok" /\ new_time.ts >= pendulum_date.ts
             THEN Bind(subtract(new_time, "days", 1), LAMBDA day_before :
                      IF day_before.error # "ok" THEN day_before
                      ELSE _replace_date_fields(day_before, hour, minute,
                                                Local(day_before).day))
             ELSE new_time)
    ELSE IF schedule_type = "WEEKLY"
    THEN Bind(_replace_date_fields(pendulum_date, hour, minute,
                                   Local(pendulum_date).day), LAMBDA at_time :
             IF at_time.error # "ok" THEN at_time
             ELSE Bind(Local(at_time).day_of_week, LAMBDA current_day_of_week :
                  Bind(IF day_of_week # current_day_of_week
                       THEN subtract(at_time, "days",
                                     (current_day_of_week - day_of_week) % 7)
                       ELSE at_time, LAMBDA on_day :
                  Bind(IF on_day.error = "ok" /\ on_day.ts >= pendulum_date.ts
                       THEN subtract(on_day, "weeks", 1) ELSE on_day, LAMBDA new_time :
                      IF new_time.error # "ok" THEN new_time
                      ELSE _replace_date_fields(new_time, hour, minute,
                                                Local(new_time).day)))))
    ELSE IF schedule_type = "MONTHLY"
    THEN Bind(_replace_date_fields(pendulum_date, hour, minute, day), LAMBDA new_time :
             IF new_time.error = "ok" /\ new_time.ts >= pendulum_date.ts
             THEN _replace_date_fields(subtract(new_time, "months", 1), hour, minute, day)
             ELSE new_time)
    ELSE Failure("Unexpected schedule type", pendulum_date.tz)

_find_previous_schedule_time(minute, hour, day, day_of_week, schedule_type, pendulum_date) ==
    IF pendulum_date.error # "ok" THEN pendulum_date
    ELSE IF schedule_type = "HOURLY"
    THEN Bind(pendulum_date.ts - (pendulum_date.ts % 60)
                  - 60 * ((Local(pendulum_date).minute - minute) % 60), LAMBDA new_timestamp :
             from_timestamp(IF new_timestamp >= pendulum_date.ts
                            THEN new_timestamp - 60 * 60 ELSE new_timestamp,
                            pendulum_date.tz))
    ELSE IF schedule_type = "DAILY"
    THEN Bind(_replace_date_fields(pendulum_date, hour, minute,
                                   Local(pendulum_date).day), LAMBDA new_time :
             IF new_time.error = "ok" /\ new_time.ts >= pendulum_date.ts
             THEN Bind(subtract(new_time, "days", 1), LAMBDA day_before :
                      IF day_before.error # "ok" THEN day_before
                      ELSE _replace_date_fields(day_before, hour, minute,
                                                Local(day_before).day))
             ELSE new_time)
    ELSE IF schedule_type = "WEEKLY"
    THEN Bind(_replace_date_fields(pendulum_date, hour, minute,
                                   Local(pendulum_date).day), LAMBDA at_time :
             IF at_time.error # "ok" THEN at_time
             ELSE Bind(Local(at_time).day_of_week, LAMBDA current_day_of_week :
                  Bind(IF day_of_week # current_day_of_week
                       THEN subtract(at_time, "days",
                                     (current_day_of_week - day_of_week) % 7)
                       ELSE at_time, LAMBDA on_day :
                  Bind(IF on_day.error = "ok" /\ on_day.ts >= pendulum_date.ts
                       THEN subtract(on_day, "weeks", 1) ELSE on_day, LAMBDA new_time :
                      IF new_time.error # "ok" THEN new_time
                      ELSE _replace_date_fields(new_time, hour, minute,
                                                Local(new_time).day)))))
    ELSE IF schedule_type = "MONTHLY"
    THEN Bind(_replace_date_fields(pendulum_date, hour, minute, day), LAMBDA new_time :
             IF new_time.error = "ok" /\ new_time.ts >= pendulum_date.ts
             THEN _replace_date_fields(subtract(new_time, "months", 1), hour, minute, day)
             ELSE new_time)
    ELSE Failure("Unexpected schedule type", pendulum_date.tz)

(***************************************************************************)
(* Cron strings.  A cron string is the sequence of its five fields         *)
(* (minute, hour, day of month, month, day of week), each the text between *)
(* two spaces.  CroniterShim.expand gives for each field the list of its   *)
(* values, a wildcard being the list of the one value Star.                *)
(***************************************************************************)
Star == 0 - 1

FieldValues ==
    ("*" :> <<Star>>) @@ ("0" :> <<0>>) @@ ("1" :> <<1>>) @@ ("2" :> <<2>>)
        @@ ("10" :> <<10>>) @@ ("28" :> <<28>>) @@ ("29" :> <<29>>) @@ ("30" :> <<30>>)
        @@ ("31" :> <<31>>) @@ ("0,12" :> <<0, 12>>) @@ ("0#2" :> <<0>>)

\* the pairs of a day of the week and its rank in the month that a field of
\* the form d#n asks for
NthWeekday == ("0#2" :> {<<0, 2>>})

CronStrings ==
    {<<"0", "*", "*", "*", "*">>, <<"30", "*", "*", "*", "*">>,
     <<"0", "0", "*", "*", "*">>, <<"30", "2", "*", "*", "*">>,
     <<"30", "1", "*", "*", "*">>, <<"30", "2", "*", "*", "0">>,
     <<"30", "2", "10", "*", "*">>, <<"0", "0", "31", "*", "*">>,
     <<"0", "0,12", "*", "*", "*">>, <<"0", "0", "29", "2", "*">>,
     <<"0", "0", "*", "*", "0#2">>}

\* strings that are not cron strings of five fields: one with a field for
\* seconds, one with a field croniter cannot read, one with four fields
OtherStrings ==
    {<<"0", "0", "*", "*", "*", "0">>, <<"0", "x", "*", "*", "*">>, <<"0", "0", "*", "*">>}

\* croniter.expand: the value lists of the fields and the nth-weekday pairs
croniter_expand(cron_string) ==
    [cron_parts |-> [i \in DOMAIN cron_string |-> FieldValues[cron_string[i]]],
     nth_weekday_of_month |-> IF Len(cron_string) >= 5 /\ cron_string[5] \in DOMAIN NthWeekday
                              THEN NthWeekday[cron_string[5]] ELSE {}]

\* as expand, but the memo is not keyed by the cron string: whatever it
\* holds is returned
expand_ignoresKey(cron_string) ==
    IF DOMAIN expand_cache # {}
    THEN expand_cache[CHOOSE k \in DOMAIN expand_cache : TRUE]
    ELSE croniter_expand(cron_string)

\* CroniterShim.expand: croniter.expand behind functools.lru_cache
expand(cron_string) ==
    IF cron_string \in DOMAIN expand_cache THEN expand_cache[cron_string]
    ELSE croniter_expand(cron_string)

\* the memo after the expansion of the given cron strings
Memoized(cron_strings) ==
    [k \in DOMAIN expand_cache \cup cron_strings |->
        IF k \in DOMAIN expand_cache THEN expand_cache[k] ELSE croniter_expand(k)]

is_numeric(part) == Len(part) = 1 /\ part[1] # Star

is_wildcard(part) == Len(part) = 1 /\ part[1] = Star

\* the interval the numeric and wildcard fields of a cron string stand for,
\* PyNone when they stand for none
interval_of(cron_parts) ==
    LET numeric == [i \in 1..5 |-> is_numeric(cron_parts[i])]
        wildcard == [i \in 1..5 |-> is_wildcard(cron_parts[i])]
    IN  IF numeric[1] /\ numeric[2] /\ numeric[3] /\ wildcard[4] /\ wildcard[5]
        THEN "MONTHLY"
        ELSE IF numeric[1] /\ numeric[2] /\ numeric[5] /\ wildcard[3] /\ wildcard[4]
        THEN "WEEKLY"
        ELSE IF numeric[1] /\ numeric[2] /\ wildcard[3] /\ wildcard[4] /\ wildcard[5]
        THEN "DAILY"
        ELSE IF numeric[1] /\ wildcard[2] /\ wildcard[3] /\ wildcard[4] /\ wildcard[5]
        THEN "HOURLY"
        ELSE PyNone

\* the schedule type cron_string_iterator recognises, PyNone when it is none
known_schedule_type(cron_string) ==
    Bind(expand(cron_string), LAMBDA e :
        IF e.nth_weekday_of_month # {} THEN PyNone ELSE interval_of(e.cron_parts))

\* the interval reverse_cron_string_iterator recognises: it looks at the
\* value lists alone
reverse_schedule_type(cron_string) == interval_of(expand(cron_string).cron_parts)

\* expected_minute, expected_hour, expected_day, expected_day_of_week: the
\* value of a numeric field, and Star standing for None otherwise
expected(cron_string, field) ==
    LET part == expand(cron_string).cron_parts[field]
    IN  IF is_numeric(part) THEN part[1] ELSE Star

\* delta_fn of the schedule type
delta_unit(schedule_type) ==
    IF schedule_type = "MONTHLY" THEN "months"
    ELSE IF schedule_type = "WEEKLY" THEN "weeks"
    ELSE IF schedule_type = "DAILY" THEN "days"
    ELSE "hours"

should_hour_change(schedule_type) == schedule_type = "HOURLY"

(***************************************************************************)
(* croniter.  An instant matches a cron string when it is on a full minute *)
(* and each field of its local date and wall clock is among the values of  *)
(* the cron field; get_next and get_prev give the nearest matching instant *)
(* after and before the current one.                                       *)
(***************************************************************************)
FieldMatches(part, value) == is_wildcard(part) \/ \E i \in DOMAIN part : part[i] = value

\* the day of the week of a date and its rank among the same days of the
\* week of its month are asked for
NthMatches(nth_weekday_of_month, day, day_of_week) ==
    nth_weekday_of_month = {} \/ <<day_of_week, (day - 1) \div 7 + 1>> \in nth_weekday_of_month

croniter_match(cron_string, dt) ==
    Bind(expand(cron_string), LAMBDA e :
    Bind(Local(dt), LAMBDA l :
        /\ FieldMatches(e.cron_parts[1], l.minute)
        /\ FieldMatches(e.cron_parts[2], l.hour)
        /\ FieldMatches(e.cron_parts[3], l.day)
        /\ FieldMatches(e.cron_parts[4], l.month)
        /\ FieldMatches(e.cron_parts[5], l.day_of_week)
        /\ NthMatches(e.nth_weekday_of_month, l.day, l.day_of_week)))

PartValues(part, all) == IF is_wildcard(part) THEN all ELSE {part[i] : i \in DOMAIN part}

\* the matching instants near a datetime: those of the four weeks around
\* its local date when the cron string matches in every month and on every
\* day of the month (of the twelve weeks around it when it asks for the rank
\* of a day of the week), those of the matching dates of the years around
\* it otherwise
MatchingInstants(cron_string, dt) ==
    LET parts == expand(cron_string).cron_parts
        nth == expand(cron_string).nth_weekday_of_month
    IN  Bind(Local(dt), LAMBDA l :
        Bind(days_from_civil(l.year, l.month, l.day), LAMBDA today :
        Bind(IF is_wildcard(parts[3]) /\ is_wildcard(parts[4])
             THEN {civil_from_days(d) :
                      d \in (today - (IF nth = {} THEN 14 ELSE 42))
                                ..(today + (IF nth = {} THEN 14 ELSE 42))}
             ELSE {[year |-> y, month |-> m, day |-> d] :
                      y \in (l.year - 4)..(l.year + 4),
                      m \in PartValues(parts[4], 1..12),
                      d \in PartValues(parts[3], 1..31)}, LAMBDA dates :
        UNION {InstantsAt(date.year, date.month, date.day, h, mi, 0, dt.tz) :
                  date \in {x \in dates :
                               /\ x.day <= DaysInMonth(x.year, x.month)
                               /\ Bind(weekday(days_from_civil(x.year, x.month, x.day)),
                                       LAMBDA day_of_week :
                                           /\ FieldMatches(parts[5], day_of_week)
                                           /\ NthMatches(nth, x.day, day_of_week))},
                  h \in PartValues(parts[2], 0..23),
                  mi \in PartValues(parts[1], 0..59)})))

croniter_get_next(cron_string, dt) ==
    DateTime(SetMin({t \in MatchingInstants(cron_string, dt) : t > dt.ts}), dt.tz)

croniter_get_prev(cron_string, dt) ==
    DateTime(SetMax({t \in MatchingInstants(cron_string, dt) : t < dt.ts}), dt.tz)

\* as _exact_match, but an instant within a minute after a tick matches too
\* (croniter's own match)
_exact_match_withinMinute(cron_string, dt) ==
    croniter_match(cron_string, DateTime(dt.ts - (dt.ts % 60), dt.tz))

\* _exact_match: dt is exactly on a tick of the cron string
_exact_match(cron_string, dt) ==
    Bind(Local(dt), LAMBDA l :
        \/ /\ cron_string = <<"0", "0", "*", "*", "*">>
           /\ l.hour = 0 /\ l.minute = 0 /\ l.second = 0
        \/ cron_string = <<"0", "*", "*", "*", "*">> /\ l.minute = 0 /\ l.second = 0
        \/ l.second = 0 /\ croniter_match(cron_string, dt))

(***************************************************************************)
(* cron_string_iterator is a generator: a call creates it and each request *)
(* for its next element runs its body up to the next yield.  Its state is  *)
(* the position `at` in the body ("start": not yet run, "loop": at the top *)
(* of its while loop, "gap": after the yield of the extra tick of a gap,   *)
(* "raised": left by an exception), next_date and the current instant of   *)
(* date_iter.  For a leap-day cron string the generator runs the one of    *)
(* the day before and filters and shifts what it yields: leap_day is set   *)
(* and cron_string is the string of the day before.                        *)
(***************************************************************************)
cron_string_iterator(start_timestamp, cron_string, execution_timezone, start_offset) ==
    LET leap_day == SubSeq(cron_string, 3, 5) = <<"29", "2", "*">>
        timezone_str == IF Truthy(execution_timezone) THEN execution_timezone ELSE "UTC"
    IN  [leap_day |-> leap_day,
         cron_string |-> IF leap_day THEN SubSeq(cron_string, 1, 2) \o <<"28", "2", "*">>
                         ELSE cron_string,
         tz |-> timezone_str,
         start_timestamp |-> start_timestamp,
         start_offset |-> start_offset,
         reverse |-> FALSE,
         at |-> "start",
         next_date |-> DateTime(start_timestamp, timezone_str),
         date_iter |-> DateTime(start_timestamp, timezone_str)]

\* reverse_cron_string_iterator is a generator of the same kind; it has no
\* special case for leap days and no start_offset, and start_timestamp holds
\* its end_timestamp
reverse_cron_string_iterator(end_timestamp, cron_string, execution_timezone) ==
    LET timezone_str == IF Truthy(execution_timezone) THEN execution_timezone ELSE "UTC"
    IN  [leap_day |-> FALSE,
         cron_string |-> cron_string,
         tz |-> timezone_str,
         start_timestamp |-> end_timestamp,
         start_offset |-> 0,
         reverse |-> TRUE,
         at |-> "start",
         next_date |-> DateTime(end_timestamp, timezone_str),
         date_iter |-> DateTime(end_timestamp, timezone_str)]

RECURSIVE Repeat(_, _, _, _)
\* next_date after n further applications of _find_previous_schedule_time
Repeat(cron_string, schedule_type, next_date, n) ==
    IF n <= 0 THEN next_date
    ELSE Repeat(cron_string, schedule_type,
                _find_previous_schedule_time(expected(cron_string, 1), expected(cron_string, 2),
                    expected(cron_string, 3), expected(cron_string, 5), schedule_type,
                    next_date),
                n - 1)

RECURSIVE RepeatPrev(_, _, _)
RepeatPrev(cron_string, next_date, n) ==
    IF n <= 0 THEN next_date
    ELSE RepeatPrev(cron_string, croniter_get_prev(cron_string, next_date), n - 1)

Yields(value, it) == [yields |-> TRUE, value |-> value, it |-> it]

Continues(it) == [yields |-> FALSE, value |-> it.next_date, it |-> it]

Raises(e, it) ==
    [yields |-> TRUE, value |-> Failure(e, it.tz), it |-> [it EXCEPT !.at = "raised"]]

\* the end of a pass of either loop: the guard against instants before the
\* start, then the yield
GuardedYield(it, next_date) ==
    IF next_date.error # "ok" THEN Raises(next_date.error, it)
    ELSE IF it.start_offset = 0 /\ next_date.ts < it.start_timestamp
    THEN Continues([it EXCEPT !.at = "loop", !.next_date = next_date,
                              !.date_iter = next_date])
    ELSE Yields(next_date, [it EXCEPT !.at = "loop", !.next_date = next_date,
                                      !.date_iter = next_date])

\* as Start, but the previous tick itself is yielded first
Start_yieldsPreviousTick(it) ==
    Bind(_find_previous_schedule_time(expected(it.cron_string, 1),
             expected(it.cron_string, 2), expected(it.cron_string, 3),
             expected(it.cron_string, 5), known_schedule_type(it.cron_string),
             from_timestamp(it.start_timestamp, it.tz)), LAMBDA previous :
        Yields(previous, [it EXCEPT !.at = "loop", !.next_date = previous]))

\* the body of the generator before its loop
Start(it) ==
    LET start_datetime == DateTime(it.start_timestamp, it.tz)
    IN  Bind(known_schedule_type(it.cron_string), LAMBDA schedule_type :
        IF schedule_type # PyNone /\ it.start_offset = 0
               /\ _exact_match(it.cron_string, start_datetime)
        THEN Yields(start_datetime, [it EXCEPT !.at = "loop", !.next_date = start_datetime])
        ELSE IF schedule_type # PyNone
        THEN Bind(_find_previous_schedule_time(expected(it.cron_string, 1),
                      expected(it.cron_string, 2), expected(it.cron_string, 3),
                      expected(it.cron_string, 5), schedule_type,
                      from_timestamp(it.start_timestamp, it.tz)), LAMBDA previous :
             IF previous.error # "ok" THEN Raises(previous.error, it)
             ELSE IF it.start_offset > 0 THEN Raises("CheckError", it)
             ELSE Bind(Repeat(it.cron_string, schedule_type, previous,
                              0 - it.start_offset), LAMBDA next_date :
                      IF next_date.error # "ok" THEN Raises(next_date.error, it)
                      ELSE Continues([it EXCEPT !.at = "loop", !.next_date = next_date])))
        ELSE Bind(croniter_get_prev(it.cron_string, start_datetime), LAMBDA prev :
             Bind(IF croniter_match(it.cron_string, prev) THEN prev
                  ELSE croniter_get_next(it.cron_string, prev), LAMBDA matched :
             IF it.start_offset > 0 THEN Raises("CheckError", it)
             ELSE Bind(RepeatPrev(it.cron_string, matched, 0 - it.start_offset),
                       LAMBDA next_date :
                      Continues([it EXCEPT !.at = "loop", !.next_date = next_date,
                                           !.date_iter = next_date])))))

\* the hour and minute corrections at the end of a pass of the loop over
\* fixed intervals that met no gap
Corrected(it, next_date_cand) ==
    LET expected_hour == expected(it.cron_string, 2)
        expected_minute == expected(it.cron_string, 1)
    IN  Bind(Local(next_date_cand), LAMBDA new :
        Bind(IF expected_hour # Star /\ new.hour # expected_hour
                /\ utcoffset(it.tz, next_date_cand.ts) = utcoffset(it.tz, it.next_date.ts)
             THEN set(next_date_cand, expected_hour, new.minute)
             ELSE next_date_cand, LAMBDA hour_set :
            IF expected_minute # Star /\ new.minute # expected_minute
            THEN set(hour_set, Local(hour_set).hour, expected_minute)
            ELSE hour_set))

\* as FixedIntervalPass, but the instant one interval on is kept when its
\* hour differs
FixedIntervalPass_keepsShiftedHour(it) ==
    GuardedYield(it, Corrected(it, add(it.next_date, delta_unit(known_schedule_type(it.cron_string)), 1)))

\* a pass of the loop over fixed intervals, up to its first yield or to its end
FixedIntervalPass(it) ==
    Bind(known_schedule_type(it.cron_string), LAMBDA schedule_type :
    Bind(Local(it.next_date).hour, LAMBDA curr_hour :
    Bind(add(it.next_date, delta_unit(schedule_type), 1), LAMBDA next_date_cand :
        IF next_date_cand.error # "ok" THEN Raises(next_date_cand.error, it)
        ELSE Bind(Local(next_date_cand).hour, LAMBDA new_hour :
            IF ~should_hour_change(schedule_type) /\ new_hour # curr_hour
            THEN IF new_hour # curr_hour + 1 THEN Raises("CheckError", it)
                 ELSE Yields(set(next_date_cand, new_hour, 0), [it EXCEPT !.at = "gap"])
            ELSE GuardedYield(it, Corrected(it, next_date_cand))))))

\* the rest of a pass after the yield of the extra tick of a gap
AfterGap(it) ==
    LET expected_minute == expected(it.cron_string, 1)
    IN  Bind(delta_unit(known_schedule_type(it.cron_string)), LAMBDA unit :
        Bind(add(it.next_date, unit, 2), LAMBDA next_date_cand :
            IF next_date_cand.error # "ok" THEN Raises(next_date_cand.error, it)
            ELSE Bind(Local(next_date_cand).hour, LAMBDA new_hour :
                IF new_hour # Local(it.next_date).hour
                THEN Raises("CheckError", it)
                ELSE GuardedYield(it,
                         IF expected_minute # Star
                                /\ Local(add(it.next_date, unit, 1)).minute # expected_minute
                         THEN set(next_date_cand, new_hour, expected_minute)
                         ELSE next_date_cand))))

\* a pass of the loop over croniter
CroniterPass(it) == GuardedYield(it, croniter_get_next(it.cron_string, it.date_iter))

\* as ReverseGuardedYield, but an instant after the end is retried from where
\* the pass began
ReverseGuardedYield_retriesInPlace(it, next_date) ==
    IF next_date.error # "ok" THEN Raises(next_date.error, it)
    ELSE IF next_date.ts > it.start_timestamp
    THEN Continues([it EXCEPT !.at = "loop"])
    ELSE Yields(next_date, [it EXCEPT !.at = "loop", !.next_date = next_date,
                                      !.date_iter = next_date])

\* the end of a pass of either loop of reverse_cron_string_iterator: the
\* guard against instants after the end, then the yield
ReverseGuardedYield(it, next_date) ==
    IF next_date.error # "ok" THEN Raises(next_date.error, it)
    ELSE IF next_date.ts > it.start_timestamp
    THEN Continues([it EXCEPT !.at = "loop", !.next_date = next_date,
                              !.date_iter = next_date])
    ELSE Yields(next_date, [it EXCEPT !.at = "loop", !.next_date = next_date,
                                      !.date_iter = next_date])

\* the body of reverse_cron_string_iterator before its loop: one step forward
ReverseStart(it) ==
    Bind(croniter_get_next(it.cron_string, DateTime(it.start_timestamp, it.tz)),
         LAMBDA next_date :
             Continues([it EXCEPT !.at = "loop", !.next_date = next_date,
                                  !.date_iter = next_date]))

\* a pass of its loop over fixed intervals, up to its first yield or its end
ReverseFixedIntervalPass(it) ==
    Bind(reverse_schedule_type(it.cron_string), LAMBDA schedule_type :
    Bind(Local(it.next_date).hour, LAMBDA curr_hour :
    Bind(subtract(it.next_date, delta_unit(schedule_type), 1), LAMBDA next_date_cand :
        IF next_date_cand.error # "ok" THEN Raises(next_date_cand.error, it)
        ELSE Bind(Local(next_date_cand).hour, LAMBDA new_hour :
            IF ~should_hour_change(schedule_type) /\ new_hour # curr_hour
            THEN IF new_hour # curr_hour + 1 THEN Raises("CheckError", it)
                 ELSE Yields(set(next_date_cand, new_hour, 0), [it EXCEPT !.at = "gap"])
            ELSE ReverseGuardedYield(it, next_date_cand)))))

\* the rest of that pass after the yield of the extra tick of a gap
ReverseAfterGap(it) ==
    Bind(subtract(it.next_date, delta_unit(reverse_schedule_type(it.cron_string)), 2),
         LAMBDA next_date_cand :
             IF next_date_cand.error # "ok" THEN Raises(next_date_cand.error, it)
             ELSE IF Local(next_date_cand).hour # Local(it.next_date).hour
             THEN Raises("CheckError", it)
             ELSE ReverseGuardedYield(it, next_date_cand))

\* a pass of its loop over croniter
ReverseCroniterPass(it) ==
    ReverseGuardedYield(it, croniter_get_prev(it.cron_string, it.date_iter))

\* the generator's body from its position up to a yield, a continue or a raise
Pass(it) ==
    IF it.reverse
    THEN IF it.at = "start" THEN ReverseStart(it)
         ELSE IF it.at = "gap" THEN ReverseAfterGap(it)
         ELSE IF reverse_schedule_type(it.cron_string) # PyNone
         THEN ReverseFixedIntervalPass(it)
         ELSE ReverseCroniterPass(it)
    ELSE IF it.at = "start" THEN Start(it)
    ELSE IF it.at = "gap" THEN AfterGap(it)
    ELSE IF known_schedule_type(it.cron_string) # PyNone THEN FixedIntervalPass(it)
    ELSE CroniterPass(it)

\* passes a request for the next element may take before it is given up
MaxPasses == 8

RECURSIVE generator_next_keepsEveryYear(_, _)
\* as generator_next, but a leap-day cron string keeps the years that are not
\* leap years
generator_next_keepsEveryYear(it, fuel) ==
    IF fuel = 0
    THEN [value |-> Failure("no progress", it.tz), it |-> [it EXCEPT !.at = "raised"]]
    ELSE Bind(Pass(it), LAMBDA r :
             IF ~r.yields
             THEN generator_next_keepsEveryYear(r.it, fuel - 1)
             ELSE IF r.value.error # "ok" \/ ~it.leap_day
             THEN [value |-> r.value, it |-> r.it]
             ELSE [value |-> DateTime(r.value.ts + 86400, r.value.tz), it |-> r.it])

RECURSIVE generator_next(_, _)
\* next(generator): the passes up to the next element the generator yields,
\* which for a leap-day cron string is the next one in a leap year, a day on
generator_next(it, fuel) ==
    IF fuel = 0
    THEN [value |-> Failure("no progress", it.tz), it |-> [it EXCEPT !.at = "raised"]]
    ELSE Bind(Pass(it), LAMBDA r :
             IF ~r.yields \/ (r.value.error = "ok" /\ it.leap_day
                                 /\ ~isleap(Local(r.value).year))
             THEN generator_next(r.it, fuel - 1)
             ELSE IF r.value.error # "ok" \/ ~it.leap_day
             THEN [value |-> r.value, it |-> r.it]
             ELSE [value |-> DateTime(r.value.ts + 86400, r.value.tz), it |-> r.it])

(***************************************************************************)
(* is_valid_cron_string, is_valid_cron_schedule.  A cron schedule is a     *)
(* cron string, [str |-> s], or a sequence of cron strings, [seq |-> ss].  *)
(***************************************************************************)
\* croniter.is_valid: five fields, or six with one for seconds, each of
\* which croniter can read
is_valid(cron_string) ==
    /\ Len(cron_string) \in {5, 6}
    /\ \A i \in DOMAIN cron_string : cron_string[i] \in DOMAIN FieldValues

\* as is_valid_cron_string, but the number of fields is not looked at
is_valid_cron_string_anyLength(cron_string) == is_valid(cron_string)

is_valid_cron_string(cron_string) ==
    IF ~is_valid(cron_string) THEN FALSE
    ELSE Len(expand(cron_string).cron_parts) = 5

IsStr(cron_schedule) == "str" \in DOMAIN cron_schedule

is_valid_cron_schedule(cron_schedule) ==
    IF IsStr(cron_schedule) THEN is_valid_cron_string(cron_schedule.str)
    ELSE /\ Len(cron_schedule.seq) > 0
         /\ \A i \in DOMAIN cron_schedule.seq : is_valid_cron_string(cron_schedule.seq[i])

(***************************************************************************)
(* schedule_execution_time_iterator, ascending.  The generator of a cron   *)
(* string yields what cron_string_iterator yields.  The generator of a     *)
(* sequence keeps one iterator for each string and their current elements  *)
(* next_dates; it yields the earliest of them and then moves on every      *)
(* iterator whose element is that instant.                                 *)
(***************************************************************************)
CronStringsOf(cron_schedule) ==
    IF IsStr(cron_schedule) THEN <<cron_schedule.str>> ELSE cron_schedule.seq

\* the iterators with the next element taken from each one of `which`
NextOfEach(its, dates, which) ==
    [i \in DOMAIN its |-> IF i \in which THEN generator_next(its[i], MaxPasses)
                          ELSE [value |-> dates[i], it |-> its[i]]]

\* as Earliest, but the latest of the current elements
Earliest_takesLatest(dates) ==
    CHOOSE d \in Range(dates) : \A e \in Range(dates) : e.ts <= d.ts

\* min(next_dates)
Earliest(dates) ==
    CHOOSE d \in Range(dates) : \A e \in Range(dates) : d.ts <= e.ts

\* as Tied, but only the first iterator that gave the earliest instant
Tied_onlyFirst(dates, earliest_next_date) ==
    {CHOOSE i \in DOMAIN dates : dates[i] = earliest_next_date}

\* the iterators that gave the instant just yielded
Tied(dates, earliest_next_date) ==
    {i \in DOMAIN dates : dates[i] = earliest_next_date}

(***************************************************************************)
(* Tick streams as a state machine.  A stream is created for a cron        *)
(* schedule, a zone and a start instant, and TakeNext asks it for its next *)
(* element.  The start instants lie around the hour a zone skips in spring *)
(* (2019-03-10), around the hour it repeats in autumn (2019-11-03), around *)
(* a leap day (2020-02-29) and around the ends of months.                  *)
(***************************************************************************)
MaxTicks == 3

HalfHours == 6

StartTimestamps ==
    {1552197600 + k * 1800 : k \in 0..HalfHours}            \* 2019-03-10 06:00Z on
        \cup {1552120200, 1552120201, 1552289400}           \* 02:30 on 03-09, 03-11
        \cup {1572759000 + k * 1800 : k \in 0..HalfHours}   \* 2019-11-03 05:30Z on
        \cup {1582848000 + k * 43200 : k \in 0..4}          \* 2020-02-28 00:00Z on
        \cup {1548892800, 1553990400, 1556625600}           \* 2019-01-31, 03-31, 04-30

ExecutionTimezones == {PyNone, "US/Central"}

StartOffsets == {0, 0 - 1, 0 - 2, 1}

\* the sequences of cron strings given as a schedule
CronSequences ==
    {<<>>,
     <<<<"0", "0", "*", "*", "*">>, <<"0", "0,12", "*", "*", "*">>>>,
     <<<<"30", "2", "*", "*", "*">>, <<"0", "*", "*", "*", "*">>>>,
     <<<<"30", "1", "*", "*", "*">>, <<"30", "*", "*", "*", "*">>,
       <<"30", "2", "*", "*", "0">>>>,
     <<<<"0", "0", "*", "*", "*">>, <<"0", "0", "*", "*", "*", "0">>>>}

CronInitIn(timezones) ==
    /\ sensorKind = "sensor"
    /\ targets = <<>>
    /\ eventLog = <<>>
    /\ persistedCursor = PyNone
    /\ pc = "ready"
    /\ ctxCursor = PyNone
    /\ cursor_has_been_updated = FALSE
    /\ shape = "value"
    /\ produced = <<>>
    /\ eventRecord = NoRecord
    /\ outcome = NoOutcome
    /\ updatedSinceLastItem = FALSE
    /\ advanceCalled = FALSE
    /\ lastReturnedCursor = PyNone
    /\ handedOver = {}
    /\ cronSchedule \in {[str |-> c] : c \in CronStrings \cup OtherStrings}
                            \cup {[seq |-> cs] : cs \in CronSequences}
    /\ executionTimezone \in timezones
    /\ startTimestamp \in StartTimestamps
    /\ ascending \in BOOLEAN
    /\ startOffset \in IF IsStr(cronSchedule) /\ ascending THEN StartOffsets ELSE {0}
    /\ expand_cache = <<>>
    /\ twin = NoStream
    /\ iterators = <<>>
    /\ next_dates = <<>>
    /\ emitted = <<>>
    /\ probe = NoProbe
    /\ NoScope

CronInit == CronInitIn(ExecutionTimezones)

sensorVars == <<sensorKind, targets, eventLog, persistedCursor, pc, ctxCursor,
                cursor_has_been_updated, shape, produced, eventRecord, outcome,
                updatedSinceLastItem, advanceCalled, lastReturnedCursor, handedOver>>

streamInput == <<cronSchedule, executionTimezone, startTimestamp, startOffset, ascending>>

TimezoneStr == IF Truthy(executionTimezone) THEN executionTimezone ELSE "UTC"

Started == iterators # <<>>

StreamRaised == emitted # <<>> /\ emitted[Len(emitted)].error # "ok"

\* the first exception among the elements taken, if there is one
FirstError(taken) ==
    taken[SetMin({i \in DOMAIN taken : taken[i].value.error # "ok"})].value

\* the iterators of a stream, created by its first pass
Iterators(st) ==
    IF st.iterators # <<>> THEN st.iterators
    ELSE Bind(CronStringsOf(cronSchedule), LAMBDA cron_strings :
             [i \in DOMAIN cron_strings |->
                 IF ascending
                 THEN cron_string_iterator(startTimestamp, cron_strings[i],
                                           executionTimezone, startOffset)
                 ELSE reverse_cron_string_iterator(startTimestamp, cron_strings[i],
                                                   executionTimezone)])

\* the body of a stream up to its next yield: the iterators after it, their
\* current elements, and what it has yielded
StreamPass(st) ==
    IF ~is_valid_cron_schedule(cronSchedule)
    THEN [st EXCEPT !.emitted = Append(@, Failure("CheckError", TimezoneStr))]
    ELSE Bind(NextOfEach(Iterators(st), st.next_dates,
                  IF st.iterators # <<>> /\ ~IsStr(cronSchedule)
                  THEN Tied(st.next_dates, st.emitted[Len(st.emitted)])
                  ELSE DOMAIN CronStringsOf(cronSchedule)), LAMBDA taken :
         Bind([i \in DOMAIN taken |-> taken[i].value], LAMBDA dates :
             [iterators |-> [i \in DOMAIN taken |-> taken[i].it],
              next_dates |-> dates,
              emitted |-> Append(st.emitted,
                              IF \E i \in DOMAIN taken : taken[i].value.error # "ok"
                              THEN FirstError(taken) ELSE Earliest(dates))]))

\* the cron strings a pass of a stream has expanded: those of the schedule
\* up to the first one that is not valid, and those of its iterators
Expanded(its) ==
    Bind(CronStringsOf(cronSchedule), LAMBDA cron_strings :
        {cron_strings[i] : i \in {j \in DOMAIN cron_strings :
                                      /\ is_valid(cron_strings[j])
                                      /\ \A k \in 1..(j - 1) :
                                             is_valid_cron_string(cron_strings[k])}}
            \cup {its[i].cron_string : i \in DOMAIN its})

\* the stream of the variables iterators, next_dates and emitted
Stream == [iterators |-> iterators, next_dates |-> next_dates, emitted |-> emitted]

\* a stream can be asked for its next element
Open(st) ==
    /\ Len(st.emitted) < MaxTicks
    /\ st.emitted # <<>> => st.emitted[Len(st.emitted)].error = "ok"

\* next(stream), the stream being cron_string_iterator(...) or
\* reverse_cron_string_iterator(...) for a cron string and
\* schedule_execution_time_iterator(...) for a sequence
TakeNext ==
    /\ probe = NoProbe
    /\ Open(Stream)
    /\ \E pass \in {StreamPass(Stream)} :
           /\ iterators' = pass.iterators
           /\ next_dates' = pass.next_dates
           /\ emitted' = pass.emitted
           /\ expand_cache' = Memoized(Expanded(pass.iterators))
    /\ UNCHANGED <<instanceScope, sensorVars, streamInput, twin, probe>>

\* next(twin): the second stream, which shares the memo of expand
TakeNextTwin ==
    /\ probe = NoProbe
    /\ Open(twin)
    /\ \E pass \in {StreamPass(twin)} :
           /\ twin' = pass
           /\ expand_cache' = Memoized(Expanded(pass.iterators))
    /\ UNCHANGED <<instanceScope, sensorVars, streamInput, iterators, next_dates, emitted, probe>>

\* the schedule type and expected fields of a cron string given alone
ProbeType == known_schedule_type(cronSchedule.str)

\* _find_previous_schedule_time applied to the start instant
FindPreviousTick ==
    /\ probe = NoProbe
    /\ ~Started /\ emitted = <<>>
    /\ IsStr(cronSchedule) /\ is_valid_cron_schedule(cronSchedule)
    /\ ascending /\ startOffset = 0
    /\ ProbeType # PyNone
    /\ probe' = [op |-> "_find_previous_schedule_time",
                 result |-> _find_previous_schedule_time(
                     expected(cronSchedule.str, 1), expected(cronSchedule.str, 2),
                     expected(cronSchedule.str, 3), expected(cronSchedule.str, 5),
                     ProbeType, from_timestamp(startTimestamp, TimezoneStr))]
    /\ UNCHANGED <<instanceScope, sensorVars, streamInput, expand_cache, twin, iterators, next_dates,
                   emitted>>

\* _replace_date_fields applied to the start instant with the hour and minute
\* of the cron string, and with its day or else the day of the start instant
ReplaceDateFields ==
    /\ probe = NoProbe
    /\ ~Started /\ emitted = <<>>
    /\ IsStr(cronSchedule) /\ is_valid_cron_schedule(cronSchedule)
    /\ ascending /\ startOffset = 0
    /\ ProbeType \in {"DAILY", "WEEKLY", "MONTHLY"}
    /\ probe' = [op |-> "_replace_date_fields",
                 result |-> _replace_date_fields(
                     from_timestamp(startTimestamp, TimezoneStr),
                     expected(cronSchedule.str, 2), expected(cronSchedule.str, 1),
                     IF ProbeType = "MONTHLY" THEN expected(cronSchedule.str, 3)
                     ELSE Local(from_timestamp(startTimestamp, TimezoneStr)).day)]
    /\ UNCHANGED <<instanceScope, sensorVars, streamInput, expand_cache, twin, iterators, next_dates,
                   emitted>>

CronNext ==
    \/ TakeNext
    \/ FindPreviousTick
    \/ ReplaceDateFields

CronSpec == CronInit /\ [][CronNext]_vars

\* the same in a zone whose wall clock skips two hours
WideGapInit == CronInitIn({"Antarctica/Troll"})

WideGapSpec == WideGapInit /\ [][CronNext]_vars

\* two streams created with the same arguments and advanced in any order
TwinStarts == {1552120200, 1572762600, 1548892800}

TwinInit == CronInit /\ startOffset = 0 /\ startTimestamp \in TwinStarts

TwinNext ==
    \/ TakeNext
    \/ TakeNextTwin

TwinSpec == TwinInit /\ [][TwinNext]_vars

(***************************************************************************)
(* The ticks of a cron string in a zone, against which the functions are   *)
(* checked: the instants whose local date and wall clock match its fields. *)
(* At a fixed hour and minute there is one tick on each matching date: the *)
(* start of the next hour when that wall clock is skipped on the date, the *)
(* later instant when it occurs twice.                                     *)
(***************************************************************************)
LocalDay(tz, ts) == (ts + utcoffset(tz, ts)) \div 86400

TicksOnDay(cron_string, tz, day) ==
    LET parts == croniter_expand(cron_string).cron_parts
        date == civil_from_days(day)
        exact == InstantsAt(date.year, date.month, date.day, parts[2][1], parts[1][1], 0, tz)
    IN  IF ~(/\ FieldMatches(parts[3], date.day)
             /\ FieldMatches(parts[4], date.month)
             /\ FieldMatches(parts[5], weekday(day))
             /\ NthMatches(croniter_expand(cron_string).nth_weekday_of_month,
                           date.day, weekday(day)))
        THEN {}
        ELSE IF is_numeric(parts[1]) /\ is_numeric(parts[2])
        THEN IF exact = {}
             THEN InstantsAt(date.year, date.month, date.day, parts[2][1] + 1, 0, 0, tz)
             ELSE {SetMax(exact)}
        ELSE UNION {InstantsAt(date.year, date.month, date.day, h, mi, 0, tz) :
                       h \in PartValues(parts[2], 0..23), mi \in PartValues(parts[1], 0..59)}

\* the ticks from instant a to instant b, both included
Ticks(cron_string, tz, a, b) ==
    {t \in UNION {TicksOnDay(cron_string, tz, d) :
                     d \in (LocalDay(tz, a) - 1)..(LocalDay(tz, b) + 1)} : a <= t /\ t <= b}

IsTick(cron_string, tz, ts) == Ticks(cron_string, tz, ts, ts) # {}

Located == probe.op = "_find_previous_schedule_time"

\* C12: for every classified cron string and every reference instant the
\* previous-tick locator returns an instant that is a tick of the schedule
\* and is not after the reference, and no tick lies strictly between the two.
C12_Claim ==
    Located =>
        /\ probe.result.error = "ok"
        /\ IsTick(cronSchedule.str, TimezoneStr, probe.result.ts)
        /\ probe.result.ts <= startTimestamp
        /\ Ticks(cronSchedule.str, TimezoneStr, probe.result.ts + 1, startTimestamp - 1) = {}

Forward ==
    IsStr(cronSchedule) /\ is_valid_cron_schedule(cronSchedule) /\ ascending /\ startOffset = 0

Yielded_ok(i) == i \in DOMAIN emitted /\ emitted[i].error = "ok"

\* C14: when start_timestamp is exactly a tick of the cron string, the first
\* instant forward iteration with start_offset 0 yields is start_timestamp.
C14_Claim ==
    Forward /\ emitted # <<>> /\ IsTick(cronSchedule.str, TimezoneStr, startTimestamp) =>
        emitted[1] = DateTime(startTimestamp, TimezoneStr)

\* C15: with start_offset 0 the instants forward iteration of a cron string
\* yields are strictly ascending and none of them, the extra tick at a gap
\* included, is before start_timestamp.
C15_AscendingFromStart ==
    Forward =>
        \A i \in DOMAIN emitted :
            Yielded_ok(i) =>
                /\ emitted[i].ts >= startTimestamp
                /\ Yielded_ok(i - 1) => emitted[i - 1].ts < emitted[i].ts

\* forward iteration that began before a skipped hour has yielded the extra
\* tick at the end of the gap and the tick of the day after
C15_Witness ==
    /\ Forward
    /\ Len(emitted) = 3
    /\ \A i \in 1..3 : Yielded_ok(i)
    /\ InstantsAt(Local(emitted[2]).year, Local(emitted[2]).month, Local(emitted[2]).day,
                  expected(cronSchedule.str, 2), expected(cronSchedule.str, 1), 0,
                  TimezoneStr) = {}
    /\ Local(emitted[2]).minute = 0
    /\ emitted[1].ts >= startTimestamp

\* C16: forward iteration with start_offset 0 omits no tick: the first
\* instant it yields is the earliest tick at or after start_timestamp and no
\* tick lies strictly between two instants yielded one after the other.
C16_Claim ==
    Forward =>
        \A i \in DOMAIN emitted :
            Yielded_ok(i) =>
                /\ IsTick(cronSchedule.str, TimezoneStr, emitted[i].ts)
                /\ Ticks(cronSchedule.str, TimezoneStr,
                         IF i = 1 THEN startTimestamp ELSE emitted[i - 1].ts + 1,
                         emitted[i].ts - 1) = {}

\* the local date of a datetime as a day number
DayOf(dt) == LocalDay(dt.tz, dt.ts)

\* the zone skips the given wall clock on the local date of the datetime
InGap(dt, hour, minute) ==
    InstantsAt(Local(dt).year, Local(dt).month, Local(dt).day, hour, minute, 0, dt.tz) = {}

DailyAtHalfPastTwo ==
    Forward /\ cronSchedule.str = <<"30", "2", "*", "*", "*">>
        /\ executionTimezone = "US/Central"

\* C17: forward iteration of a daily schedule at 02:30, in a zone that skips
\* 02:00-03:00 on one date, yields one tick on each day from its first one
\* on: at 03:00 local time on the date of the gap and at 02:30 local time on
\* every other day, the days after the gap included.
C17_OneTickADayAtGap ==
    DailyAtHalfPastTwo =>
        \A i \in DOMAIN emitted :
            /\ emitted[i].error = "ok"
            /\ i > 1 => DayOf(emitted[i]) = DayOf(emitted[i - 1]) + 1
            /\ <<Local(emitted[i]).hour, Local(emitted[i]).minute>> =
                   IF InGap(emitted[i], 2, 30) THEN <<3, 0>> ELSE <<2, 30>>

\* iteration began the day before the gap and has yielded 02:30, then 03:00
\* on the date of the gap, then 02:30 again
C17_Witness ==
    /\ DailyAtHalfPastTwo
    /\ Len(emitted) = 3
    /\ DayOf(emitted[1]) < DayOf(emitted[2])
    /\ InGap(emitted[2], 2, 30)
    /\ <<Local(emitted[1]).hour, Local(emitted[1]).minute>> = <<2, 30>>
    /\ <<Local(emitted[2]).hour, Local(emitted[2]).minute>> = <<3, 0>>
    /\ <<Local(emitted[3]).hour, Local(emitted[3]).minute>> = <<2, 30>>

Replaced == probe.op = "_replace_date_fields"

\* the date and wall clock _replace_date_fields was asked for
Requested ==
    LET l == Local(from_timestamp(startTimestamp, TimezoneStr))
    IN  [year |-> l.year, month |-> l.month,
         day |-> IF ProbeType = "MONTHLY" THEN expected(cronSchedule.str, 3) ELSE l.day,
         hour |-> expected(cronSchedule.str, 2), minute |-> expected(cronSchedule.str, 1)]

RequestedInstants ==
    InstantsAt(Requested.year, Requested.month, Requested.day, Requested.hour,
               Requested.minute, 0, TimezoneStr)

\* the local wall clock of the datetime occurs twice and it is the earlier one
IsEarlierOfTwo(dt) ==
    LET l == Local(dt)
        both == InstantsAt(l.year, l.month, l.day, l.hour, l.minute, l.second, dt.tz)
    IN  Cardinality(both) = 2 /\ dt.ts = SetMin(both)

\* C18: asked for a wall clock that occurs twice on the date,
\* _replace_date_fields returns the later of the two instants; and no tick
\* derived through it (what _find_previous_schedule_time returns for a daily,
\* weekly or monthly schedule and what forward iteration yields after it) is
\* the earlier of two instants with the same wall clock.
C18_AmbiguousResolvesToLater ==
    /\ Replaced /\ Cardinality(RequestedInstants) = 2 =>
           probe.result = DateTime(SetMax(RequestedInstants), TimezoneStr)
    /\ Located /\ ProbeType # "HOURLY" /\ probe.result.error = "ok" =>
           ~IsEarlierOfTwo(probe.result)
    /\ Forward /\ ProbeType \in {"DAILY", "WEEKLY", "MONTHLY"} =>
           \A i \in DOMAIN emitted :
               Yielded_ok(i) /\ emitted[i].ts # startTimestamp => ~IsEarlierOfTwo(emitted[i])

\* the helper was asked for a wall clock that occurs twice and gave the later
C18_Witness ==
    /\ Replaced
    /\ Cardinality(RequestedInstants) = 2
    /\ probe.result.error = "ok"
    /\ probe.result.ts = SetMax(RequestedInstants)
    /\ probe.result.ts - SetMin(RequestedInstants) = 3600

RECURSIVE FirstElements(_, _)
\* the first n elements of a generator
FirstElements(it, n) ==
    IF n = 0 THEN <<>>
    ELSE LET r == generator_next(it, MaxPasses)
         IN  <<r.value>> \o (IF r.value.error = "ok" THEN FirstElements(r.it, n - 1) ELSE <<>>)

\* the instants among the first n elements of forward iteration of the i-th
\* cron string of the schedule on its own
OwnInstants(i, n) ==
    {d.ts : d \in Range(FirstElements(
                      cron_string_iterator(startTimestamp, cronSchedule.seq[i],
                                           executionTimezone, 0), n))}

Union == ~IsStr(cronSchedule) /\ is_valid_cron_schedule(cronSchedule) /\ ascending

\* C20: the stream of a sequence of cron strings, ascending, is strictly
\* ascending and is the sorted merge of the forward streams of its strings,
\* an instant that several of them hold being yielded once: its i-th element
\* is the i-th smallest instant of all of them.
C20_UnionIsSortedMerge ==
    Union =>
        LET all == UNION {OwnInstants(k, Len(emitted)) : k \in DOMAIN cronSchedule.seq}
        IN  \A i \in DOMAIN emitted :
                /\ emitted[i].error = "ok"
                /\ emitted[i].ts \in all
                /\ Cardinality({t \in all : t < emitted[i].ts}) = i - 1

\* the stream has yielded three instants, one of them held by two cron strings
C20_Witness ==
    /\ Union
    /\ Len(emitted) = 3
    /\ \E i \in DOMAIN emitted, j, k \in DOMAIN cronSchedule.seq :
           /\ j # k
           /\ emitted[i].ts \in OwnInstants(j, 3) \cap OwnInstants(k, 3)

\* the stream runs backward from the end instant
Backward == IsStr(cronSchedule) /\ is_valid_cron_schedule(cronSchedule) /\ ~ascending

BackwardUnion == ~IsStr(cronSchedule) /\ is_valid_cron_schedule(cronSchedule) /\ ~ascending

\* the instants among the first n elements of backward iteration of the i-th
\* cron string of the schedule on its own
OwnInstantsBackward(i, n) ==
    {d.ts : d \in Range(FirstElements(
                      reverse_cron_string_iterator(startTimestamp, cronSchedule.seq[i],
                                                   executionTimezone), n))}

\* C21: the stream of a sequence of cron strings, descending, is the
\* descending merge of the backward streams of its strings: its i-th element
\* is the i-th latest instant of all of them, so that none of them is left
\* behind.
C21_Claim ==
    BackwardUnion =>
        LET all == UNION {OwnInstantsBackward(k, Len(emitted)) : k \in DOMAIN cronSchedule.seq}
        IN  \A i \in DOMAIN emitted :
                /\ emitted[i].error = "ok"
                /\ emitted[i].ts \in all
                /\ Cardinality({t \in all : t > emitted[i].ts}) = i - 1

NotLeapDay == SubSeq(cronSchedule.str, 3, 5) # <<"29", "2", "*">>

\* the first n + 1 elements of backward iteration from the last of the n
\* instants forward iteration has yielded
BackFromLast ==
    FirstElements(reverse_cron_string_iterator(emitted[Len(emitted)].ts, cronSchedule.str,
                                               executionTimezone), Len(emitted) + 1)

\* C22: for a cron string that is not a leap-day one, the instants forward
\* iteration from a yields up to b are those backward iteration from b
\* yields down to a, in the opposite order (b being an instant forward
\* iteration has yielded).
C22_Claim ==
    Forward /\ NotLeapDay /\ emitted # <<>> /\ ~StreamRaised =>
        Bind(BackFromLast, LAMBDA back :
            /\ Len(back) = Len(emitted) + 1
            /\ \A i \in DOMAIN emitted :
                   back[i] = emitted[Len(emitted) + 1 - i]
            /\ back[Len(back)].error = "ok" => back[Len(back)].ts < startTimestamp)

\* C24: backward iteration of a cron string yields only instants strictly
\* before end_timestamp, each strictly before the one before it; an
\* end_timestamp that is a tick is not yielded.
C24_Claim ==
    Backward =>
        \A i \in DOMAIN emitted :
            Yielded_ok(i) =>
                /\ emitted[i].ts < startTimestamp
                /\ Yielded_ok(i - 1) => emitted[i].ts < emitted[i - 1].ts

FiveFields(cron_string) ==
    /\ Len(cron_string) = 5
    /\ \A i \in 1..5 : cron_string[i] \in DOMAIN FieldValues

ValidSchedule ==
    IF IsStr(cronSchedule) THEN FiveFields(cronSchedule.str)
    ELSE /\ cronSchedule.seq # <<>>
         /\ \A i \in DOMAIN cronSchedule.seq : FiveFields(cronSchedule.seq[i])

\* C25: is_valid_cron_schedule is true of a cron string exactly when it is a
\* valid cron string that expands to five fields, and of a sequence exactly
\* when it is not empty and every member is such a string; the stream of a
\* schedule raises the check error at once exactly when the schedule is not
\* valid (start_offset being one the iterator takes, zero or negative).
C25_ValidExactlyWhenFiveFields ==
    /\ is_valid_cron_schedule(cronSchedule) <=> ValidSchedule
    /\ emitted # <<>> /\ startOffset <= 0 =>
           (emitted[1].error = "CheckError" <=> ~ValidSchedule)

C25_Witness ==
    /\ ~IsStr(cronSchedule) /\ Len(cronSchedule.seq) = 2
    /\ FiveFields(cronSchedule.seq[1]) /\ Len(cronSchedule.seq[2]) = 6
    /\ is_valid(cronSchedule.seq[2])
    /\ emitted # <<>> /\ emitted[1].error = "CheckError"

NthWeekdayString ==
    /\ IsStr(cronSchedule) /\ is_valid_cron_schedule(cronSchedule)
    /\ croniter_expand(cronSchedule.str).nth_weekday_of_month # {}

\* C27: a cron string with an nth-weekday-of-month modifier is iterated by
\* cron matching in both directions, never by fixed-interval arithmetic:
\* every instant yielded is a tick of the string, on the nth such weekday of
\* its month.
C27_Claim ==
    NthWeekdayString =>
        \A i \in DOMAIN emitted :
            Yielded_ok(i) => IsTick(cronSchedule.str, TimezoneStr, emitted[i].ts)

MonthlyString ==
    /\ IsStr(cronSchedule) /\ is_valid_cron_schedule(cronSchedule) /\ startOffset = 0
    /\ interval_of(croniter_expand(cronSchedule.str).cron_parts) = "MONTHLY"

\* the instant is on the day of month of the cron string, at its hour and
\* minute unless that local time does not exist on the day
OnExpectedDay(dt) ==
    Bind(Local(dt), LAMBDA l :
    Bind(croniter_expand(cronSchedule.str).cron_parts, LAMBDA parts :
        /\ l.day = parts[3][1]
        /\ \/ l.hour = parts[2][1] /\ l.minute = parts[1][1]
           \/ InstantsAt(l.year, l.month, l.day, parts[2][1], parts[1][1], 0, dt.tz) = {}))

\* C30: every instant a monthly cron string with day of month D yields,
\* forward or backward, is on local day D at the expected hour and minute
\* (but for a local time that daylight saving skips), also for D from 29 to
\* 31 after a shorter month; and locating the previous tick from a
\* reference in a month without day D does not raise.
C30_Claim ==
    MonthlyString =>
        /\ \A i \in DOMAIN emitted : Yielded_ok(i) => OnExpectedDay(emitted[i])
        /\ Located => probe.result.error = "ok"

\* forward iteration of a leap-day cron string: day 29, month 2, any day of
\* the week
LeapDayString ==
    /\ IsStr(cronSchedule) /\ is_valid_cron_schedule(cronSchedule) /\ ascending
    /\ SubSeq(cronSchedule.str, 3, 5) = <<"29", "2", "*">>

\* the first elements of the forward stream of the same cron string with day
\* 28 for day 29, four for each element the leap-day stream has yielded
DayBefore ==
    FirstElements(cron_string_iterator(startTimestamp,
                                       SubSeq(cronSchedule.str, 1, 2) \o <<"28", "2", "*">>,
                                       executionTimezone, startOffset), 4 * Len(emitted))

InLeapYear(dt) == dt.error = "ok" /\ isleap(Local(dt).year)

\* C28: forward iteration of a leap-day cron string yields the instants of
\* the forward stream of the day-28 cron string that are in leap years, each
\* a day later, in the same order; every one of them is on 29 February of a
\* leap year.
C28_LeapDayIsShiftedDayBefore ==
    LeapDayString /\ startOffset <= 0 =>
        Bind(SelectSeq(DayBefore, InLeapYear), LAMBDA kept :
            /\ Len(kept) >= Len(emitted)
            /\ \A i \in DOMAIN emitted :
                   /\ emitted[i] = DateTime(kept[i].ts + 86400, kept[i].tz)
                   /\ Local(emitted[i]).month = 2 /\ Local(emitted[i]).day = 29
                   /\ isleap(Local(emitted[i]).year))

\* the leap-day stream has yielded 29 February of two leap years, four years
\* apart, the day-28 stream having yielded the three years between them
C28_Witness ==
    /\ LeapDayString
    /\ Len(emitted) >= 2
    /\ Local(emitted[2]).year = Local(emitted[1]).year + 4
    /\ Cardinality({i \in DOMAIN DayBefore : ~InLeapYear(DayBefore[i])}) >= 3

\* the context was built from an instance reference and no instance
FromReference == scope.at # "none" /\ Truthy(sensorContext._instance_ref) /\ ~scope.direct

\* the context was built from neither
FromNeither == scope.at # "none" /\ ~Truthy(sensorContext._instance_ref) /\ ~scope.direct

\* C26: a context built from an instance reference opens an instance at
\* most once, at the first read of its instance property and not before;
\* every read gives that instance; it is open until the `with` block of the
\* context is left and closed from then on, whether the tick returned or
\* raised.  A read of the property of a context built from neither a
\* reference nor an instance raises and opens nothing.
C26_LazyAcquireReleasedAtExit ==
    /\ FromReference =>
           /\ Len(instanceHandles) = (IF accessed = <<>> THEN 0 ELSE 1)
           /\ \A i \in DOMAIN accessed :
                  accessed[i].error = "ok" /\ accessed[i].value = [kind |-> "from_ref", id |-> 1]
           /\ \A h \in DOMAIN instanceHandles :
                  (\E i \in DOMAIN accessed : accessed[i].at # "exited") =>
                      (instanceHandles[h] = "closed" <=> scope.at = "exited")
    /\ FromNeither =>
           /\ instanceHandles = <<>>
           /\ \A i \in DOMAIN accessed :
                  accessed[i].error = "DagsterInvariantViolationError"

\* the routine read the instance twice, the tick raised, the block was left
\* and the one instance opened is closed
C26_Witness ==
    /\ FromReference
    /\ Len(accessed) = 2 /\ accessed[1].at = "entered" /\ accessed[2].at = "entered"
    /\ scope.at = "exited" /\ scope.tick = "raised"
    /\ instanceHandles = <<"closed">>

\* the entry of an asset in the cursor of the context, <<>> without one
PreviousEntry(a) == Get(CursorDict(ctxCursor, MultiAssetValues), a)

\* the materializations of an asset that are newer than its entry
NewerIds(a) ==
    {i \in DOMAIN eventLog : eventLog[i].asset_key = a /\ i > AfterCursor(PreviousEntry(a))}

LocatedHourly == Located /\ ProbeType = "HOURLY"

\* C31: for an hourly schedule with expected minute m and a reference
\* instant r the locator returns an instant p with p < r, r - p at most 3600
\* seconds, p a multiple of 60 seconds and the local minute of p equal to m.
C31_HourlyPreviousTick ==
    LocatedHourly =>
        /\ probe.result.error = "ok"
        /\ probe.result.ts < startTimestamp
        /\ startTimestamp - probe.result.ts <= 3600
        /\ probe.result.ts % 60 = 0
        /\ Local(probe.result).minute = expected(cronSchedule.str, 1)

\* the reference was a tick of the schedule and the tick an hour before it
\* was returned, in a zone with daylight saving
C31_Witness ==
    /\ LocatedHourly
    /\ executionTimezone = "US/Central"
    /\ Local(DateTime(startTimestamp, TimezoneStr)).minute = expected(cronSchedule.str, 1)
    /\ startTimestamp % 60 = 0
    /\ probe.result.ts = startTimestamp - 3600

\* the reference had seconds, which the result has not
C31_WitnessSeconds ==
    LocatedHourly /\ startTimestamp % 60 # 0 /\ probe.result.ts % 60 = 0

CursorValues == IF sensorKind = "multi_asset_sensor" THEN MultiAssetValues ELSE PartitionedValues

\* cursor_dict.get(a) of a cursor of the context: <<>> without an entry
EntryOf(cursor, a) == Get(CursorDict(cursor, CursorValues), a)

\* C32: advance_cursor of a multi-asset or partitioned-asset context changes
\* only the entries of the asset keys mapped to an event record: the entry
\* of a key mapped to None, and of a key that is not in the mapping, is
\* after the call what it was before.
C32_Claim ==
    [][\A m \in RecordMappings :
           AdvanceCursor(m) /\ pc' = "invoking" =>
               \A a \in Range(AssetKeys) :
                   (a \notin DOMAIN m \/ m[a] = NoRecord) =>
                       EntryOf(ctxCursor', a) = EntryOf(ctxCursor, a)]_vars

\* the storage id an asset's entry in a multi-asset cursor stands at, 0
\* without one
OffsetOf(cursor, a) == AfterCursor(Get(CursorDict(cursor, MultiAssetValues), a))

\* the storage ids the two fetches of the context return for an asset
Fetched(log, cursor, a) ==
    Range(materialization_records_for_key(log, cursor, a, MaxEvents + 1))
        \cup LET latest == MultiAsset_latest_materialization_records_by_key(log, cursor)
             IN  IF latest.error = "ok" /\ latest.records[a] # NoRecord
                 THEN {latest.records[a].storage_id} ELSE {}

HandsOver == sensorKind = "asset_sensor" /\ pc = "ready" /\ pc' = "invoking"

FindsNothing == sensorKind = "asset_sensor" /\ pc = "ready" /\ pc' = "done"

ReturnsAfterEvent == sensorKind = "asset_sensor" /\ pc = "invoking" /\ pc' = "done" /\ outcome'.status = "ok"

FastPath ==
    /\ IsStr(cronSchedule) /\ is_valid_cron_schedule(cronSchedule) /\ ascending
    /\ known_schedule_type(cronSchedule.str) # PyNone

\* C35: forward iteration of a fast-path cron string with start_offset -N,
\* N >= 1, first yields the tick N positions before the first tick at or after
\* start_timestamp and then the consecutive ticks, omitting none; with a
\* positive start_offset the iterator fails.
C35_Claim ==
    FastPath /\ emitted # <<>> =>
        /\ startOffset < 0 =>
               \A i \in DOMAIN emitted :
                   /\ Yielded_ok(i)
                   /\ IsTick(cronSchedule.str, TimezoneStr, emitted[i].ts)
                   /\ IF i = 1
                      THEN Cardinality(Ticks(cronSchedule.str, TimezoneStr, emitted[1].ts,
                                             startTimestamp - 1)) = 0 - startOffset
                      ELSE /\ emitted[i - 1].ts < emitted[i].ts
                           /\ Ticks(cronSchedule.str, TimezoneStr, emitted[i - 1].ts + 1,
                                    emitted[i].ts - 1) = {}
        /\ startOffset > 0 => emitted[1].error # "ok"


\* C36: the outcome of evaluate_tick depends only on the sequence of items the
\* routine produces and not on the shape of its return: a skip signal, a run
\* request or a run reaction returned directly gives the outcome of the same
\* item produced by a generator or inside a one-element list.
C36_Claim ==
    Finished /\ (\A i \in DOMAIN produced : IsSensorItem(produced[i])) =>
        outcome = evaluate_tick(evaluation_fn(sensorKind, "generator", produced,
                                              cursor_has_been_updated),
                                targets, persistedCursor, ctxCursor)


\* a step of a tick of an asset-aware sensor in which the routine starts
RoutineStarts == sensorKind \in AssetAwareKinds /\ pc = "ready" /\ pc' = "invoking"

\* C37: on the context of an asset-aware sensor cursor_has_been_updated is
\* false when the wrapped routine starts, in every tick and whatever an
\* earlier tick left on the context; it becomes true only in a call of
\* advance_cursor or advance_all_cursors; update_cursor changes the cursor and
\* leaves the flag as it is.
C37_FlagSetOnlyByAdvance == [][/\ RoutineStarts => ~cursor_has_been_updated'
                               /\ ~cursor_has_been_updated /\ cursor_has_been_updated' =>
                                      /\ sensorKind \in AssetAwareKinds
                                      /\ pc = "invoking"
                                      /\ advanceCalled'
                                      /\ \/ \E m \in RecordMappings : AdvanceCursor(m)
                                         \/ AdvanceAllCursors
                               /\ \A c \in UserCursors : UpdateCursor(c) => cursor_has_been_updated' = cursor_has_been_updated
                               /\ sensorKind \notin AssetAwareKinds => ~cursor_has_been_updated']_vars

\* the routine of a tick has changed the cursor with update_cursor only, on a
\* context whose flag the tick before had set, and the flag is false
C37_Witness ==
    /\ sensorKind \in AssetAwareKinds
    /\ pc = "invoking"
    /\ ~cursor_has_been_updated
    /\ ~advanceCalled
    /\ updatedSinceLastItem
    /\ ctxCursor = "x"
    /\ persistedCursor \notin {PyNone, "x"}


\* iteration, in either direction, of a cron string whose loop steps by days,
\* weeks or months
FixedDayIntervals ==
    /\ IsStr(cronSchedule) /\ is_valid_cron_schedule(cronSchedule) /\ startOffset <= 0
    /\ (IF ascending THEN known_schedule_type(cronSchedule.str)
        ELSE reverse_schedule_type(cronSchedule.str)) \in {"DAILY", "WEEKLY", "MONTHLY"}

\* C38: in forward and backward iteration of a daily, weekly or monthly cron
\* string neither check.invariant of the loop fails, for any start and any
\* position of the gap of the zone: when one interval on the local hour
\* differs it is the hour after, and two intervals on it is the hour before
\* again, so no request for an instant ends in a CheckError.
C38_Claim ==
    FixedDayIntervals => \A i \in DOMAIN emitted : emitted[i].error # "CheckError"


\* a request for an instant that ran through MaxPasses passes of the loop of
\* a generator without reaching a yield
NoProgress(dt) == dt.error = "no progress"

\* C39: every request for the next element of a forward, backward or union
\* stream returns after finitely many passes of the loops of its generators:
\* the retry after an instant before the start or after the end and the
\* filter of the years without a leap day go on from the instant they
\* skipped, so no request uses up MaxPasses passes.
C39_EveryRequestReturns ==
    /\ \A i \in DOMAIN emitted : ~NoProgress(emitted[i])
    /\ \A i \in DOMAIN next_dates : ~NoProgress(next_dates[i])
    /\ \A i \in DOMAIN twin.emitted : ~NoProgress(twin.emitted[i])

\* the second pass of a generator
SecondPass(it) == Pass(Pass(it).it)

\* backward iteration has yielded its first instant after a retry: the
\* instant its first pass of the loop computed was after the end
C39_Witness ==
    /\ Backward
    /\ Yielded_ok(1)
    /\ ~SecondPass(reverse_cron_string_iterator(startTimestamp, cronSchedule.str,
                                                executionTimezone)).yields

\* forward iteration of a leap-day cron string has yielded an instant after
\* the years without a leap day were filtered out
C39_WitnessLeapDay ==
    /\ Forward /\ SubSeq(cronSchedule.str, 3, 5) = <<"29", "2", "*">>
    /\ Len(emitted) >= 2
    /\ Yielded_ok(1) /\ Yielded_ok(2)
    /\ Local(emitted[2]).year = Local(emitted[1]).year + 4


\* the run requests among the items produced that name a job other than the
\* configured targets
NamesAnotherJob(i) ==
    /\ IsRunRequest(produced[i])
    /\ Truthy(produced[i].job_name)
    /\ produced[i].job_name \notin Range(targets)

\* C40: on a sensor with exactly one configured target the targeting check
\* accepts a run request that names no job and one that names the target,
\* and a run request that names any other job makes evaluate_tick fail.
C40_OneTarget ==
    Finished /\ Len(targets) = 1 =>
        IF \E i \in DOMAIN produced : NamesAnotherJob(i)
        THEN Failed
        ELSE outcome.error \notin TargetingErrors

\* a tick with one target has accepted a run request that names no job and
\* one that names the target
C40_Witness ==
    /\ Succeeded
    /\ Len(targets) = 1
    /\ \E i \in DOMAIN produced : IsRunRequest(produced[i]) /\ produced[i].job_name = PyNone
    /\ \E i \in DOMAIN produced : IsRunRequest(produced[i]) /\ produced[i].job_name = targets[1]
    /\ Len(outcome.data.run_requests) = 2

\* a tick with one target was refused for a run request that names another job
C40_WitnessRefused ==
    /\ Failed
    /\ Len(targets) = 1
    /\ \E i \in DOMAIN produced : NamesAnotherJob(i)
    /\ outcome.error = "targeting: job_name unknown"

====
